---- MODULE Spec2Model ----
(***************************************************************************)
(* MixingCompass: Hansen sphere fitting core.                              *)
(*                                                                         *)
(* Model of app/services/hsp_calculator.py (normal mode, radius-only mode, *)
(* Hansen distance), app/services/theory_based_loss.py (loss family),      *)
(* hansentest/continuous_hsp_loss.py (continuous L2 loss) and the distance *)
(* helpers of app/models/hsp_models.py and hansentest/concentric_          *)
(* spheroids.py; of the evaluations (final metrics of the radius-only      *)
(* mode, hansentest/evaluation_metrics.py), of the radius scan             *)
(* _optimize_radius_maximize_fit, of the experiment store                  *)
(* app/services/data_manager.py and of the experiment endpoints of         *)
(* app/api/hsp_experimental.py.                                            *)
(*                                                                         *)
(* Numbers.  Python floats are modelled in fixed point: a real x is the    *)
(* integer x * Scale, every operation rounds towards minus infinity.       *)
(* Coordinates are whole numbers of MPa^0.5 (multiples of Scale), so       *)
(* squared distances are exact and an order or an equality between two     *)
(* distances, or between a distance and a radius of the model, is the one  *)
(* the reals give.  float('inf') is the value Infinity.  None is NoValue   *)
(* (number expected) or NoneResult (result object expected).  Solvent      *)
(* names carry no behaviour and are left out: an observation is            *)
(* identified by its position in the sequence.                             *)
(***************************************************************************)
EXTENDS Integers, Sequences, FiniteSets, TLC

VARIABLES
    tests,          \* solvent_tests handed to the calculator (List[SolventTest])
    pc,             \* position inside _calculate_hsp_optimize_radius_only
    center_result,  \* result of the step-1 cross_entropy fit (NoneResult before it ran or on failure)
    hsp_data,       \* the converted table of step 2 (hsp_calculator.py line 397)
    result,         \* value returned by radius-only mode (NoneResult = failure)
    loss_call,      \* arguments of the last loss evaluation
    loss_out,       \* what that evaluation computed (red per sample, value, ...)
    pts,            \* the two HSP points handed to the distance functions
    dist_out,       \* the distances computed for pts
    calls,          \* per caller: the frame of its calculate_hsp_from_tests call
    files,          \* the temporary CSV files written so far (name = position)
    min_out,        \* outcome of an exhaustive minimisation of a loss
    evals,          \* the evaluations made so far: inputs handed over, what came back
    scan,           \* arguments and outcome of a run of _optimize_radius_maximize_fit
    data_dir,       \* DataManager.data_dir: experiment id -> content of <id>.json
    cache,          \* DataManager._cache: experiment id -> HSPExperimentData
    uuids,          \* how many ids uuid.uuid4() has handed out
    http,           \* the last request served and its response
    latest          \* history: per id, the experiment last saved or updated (NoEntry if none or deleted)

\* the state of the calculator and of the loss modules
calc_vars == <<tests, pc, center_result, hsp_data, result, loss_call, loss_out,
              pts, dist_out, calls, files, min_out>>
\* the state of the evaluations, of the radius scan and of the experiment store
manager_vars == <<data_dir, cache, uuids, http, latest>>
store_vars == <<evals, scan, data_dir, cache, uuids, http, latest>>

vars == <<tests, pc, center_result, hsp_data, result, loss_call, loss_out, pts,
         dist_out, calls, files, min_out, evals, scan, data_dir, cache, uuids,
         http, latest>>

---------------------------------------------------------------------------
(* Bounds *)
MaxCoord == 1       \* coordinates range over 0..MaxCoord MPa^0.5
MaxTests == 2       \* longest list of solvent tests

(* Fixed point *)
Scale == 10 * 10                \* two decimal digits
Infinity == 99999999
NoValue == 0 - Infinity         \* Python None where a number is expected
NoneResult == [status |-> "None"]   \* Python None where a result object is expected

Coords == {c * Scale : c \in 0..MaxCoord}
Points == Coords \X Coords \X Coords
NoHSP == <<>>

Max(a, b) == IF a >= b THEN a ELSE b
Min(a, b) == IF a <= b THEN a ELSE b
Abs(a) == IF a >= 0 THEN a ELSE 0 - a
SetMax(S) == CHOOSE x \in S : \A y \in S : y <= x
SetMin(S) == CHOOSE x \in S : \A y \in S : x <= y

\* a * b and a / b on fixed-point values
Mul(a, b) == (a * b) \div Scale
Div(a, b) == (a * Scale) \div b

\* floor of the square root, by Newton's iteration downwards from x >= sqrt(n)
RECURSIVE SqrtNewton(_, _)
SqrtNewton(n, x) ==
    LET next == (x + n \div x) \div 2
    IN  IF next >= x THEN x ELSE SqrtNewton(n, next)

\* math.sqrt / np.sqrt of a sum of products of two fixed-point values
\* (the argument is in Scale^2 units, the result in Scale units)
Sqrt(n) ==
    IF n = 0 THEN 0
    ELSE IF n < 1024 * 1024 THEN SqrtNewton(n, Min(n, 1024))
    ELSE SqrtNewton(n, Min(n, 46340))

---------------------------------------------------------------------------
(* Hansen distance *)

\* HSPCalculator._calculate_hansen_distance(point, center)
CalculateHansenDistance_IndexSlip(point, center) ==
    LET delta_D == point[1] - center[1]
        delta_P == point[2] - center[3]
        delta_H == point[3] - center[3]
    IN  Sqrt(4 * delta_D * delta_D + delta_P * delta_P + delta_H * delta_H)

CalculateHansenDistance(point, center) ==
    LET delta_D == point[1] - center[1]
        delta_P == point[2] - center[2]
        delta_H == point[3] - center[3]
    IN  Sqrt(4 * delta_D * delta_D + delta_P * delta_P + delta_H * delta_H)

\* HSPValues.calculate_red(self, other_hsp): the distance ra, lines 36-40
HSPValuesRa(self, other_hsp) ==
    Sqrt(4 * (self[1] - other_hsp[1]) * (self[1] - other_hsp[1])
         + (self[2] - other_hsp[2]) * (self[2] - other_hsp[2])
         + (self[3] - other_hsp[3]) * (self[3] - other_hsp[3]))

\* HSPValues.calculate_red, line 41; radius is self.radius
CalculateRed(self, radius, other_hsp) ==
    IF radius > 0 THEN Div(HSPValuesRa(self, other_hsp), radius) ELSE Infinity

\* ConcentricSpheroidsHSP.calculate_distance
CalculateDistance(delta_d1, delta_p1, delta_h1, delta_d2, delta_p2, delta_h2) ==
    Sqrt(4 * (delta_d1 - delta_d2) * (delta_d1 - delta_d2)
         + (delta_p1 - delta_p2) * (delta_p1 - delta_p2)
         + (delta_h1 - delta_h2) * (delta_h1 - delta_h2))

---------------------------------------------------------------------------
(* Conversion of the solvent tests *)

Solubilities == {"soluble", "partial", "insoluble"}
\* the solvents a test can name: the table entries and manual values within
\* MaxCoord of the origin (coordinates summed)
SolventPoints == {p \in Points : p[1] + p[2] + p[3] <= MaxCoord * Scale}
Tests == [hsp : SolventPoints \cup {NoHSP}, solubility : Solubilities]

\* HSPCalculator._convert_solubility_to_float (string inputs)
ConvertSolubilityToFloat(solubility) ==
    CASE solubility = "soluble"   -> Scale
      [] solubility = "partial"   -> Scale \div 2
      [] solubility = "insoluble" -> 0
      [] OTHER                    -> NoValue

\* HSPCalculator._convert_tests_to_hsp_format: rows of (D, P, H, Data);
\* tests without complete HSP data or with an unknown solubility are skipped
ConvertTestsToHspFormat(solvent_tests) ==
    LET keep(t) == /\ t.hsp # NoHSP
                   /\ ConvertSolubilityToFloat(t.solubility) # NoValue
        kept == SelectSeq(solvent_tests, keep)
    IN  [i \in 1..Len(kept) |->
            [D |-> kept[i].hsp[1], P |-> kept[i].hsp[2], H |-> kept[i].hsp[3],
             Data |-> ConvertSolubilityToFloat(kept[i].solubility)]]

---------------------------------------------------------------------------
(* Radius-only mode: HSPCalculator._calculate_hsp_optimize_radius_only *)

DefaultRaMin == Scale \div 10     \* Ra_min = 0.1 when there is no good solvent
FitCenters == SolventPoints       \* centres the step-1 optimizer may return
FitRadii == {Scale, 2 * Scale}    \* radii the step-1 optimizer may return

\* What calculate_hsp_from_tests(loss_function='cross_entropy') can return.
\* The differential-evolution search of HSPEstimator is an external numerical
\* dependency: any centre and radius of the candidates, or a failure (None).
\* Fewer than two converted rows raise ValueError, which the method turns
\* into None.
CalculateHspFromTests(solvent_tests) ==
    IF Len(ConvertTestsToHspFormat(solvent_tests)) < 2
    THEN {NoneResult}
    ELSE {NoneResult} \cup
         {[status |-> "ok", delta_d |-> c[1], delta_p |-> c[2], delta_h |-> c[3],
           radius |-> r] : c \in FitCenters, r \in FitRadii}

\* lines 404-417: every converted row with its Hansen distance to the centre
SolventsWithDistance(data, center) ==
    [i \in 1..Len(data) |->
        [delta_d |-> data[i].D, delta_p |-> data[i].P,
         delta_h |-> data[i].H, solubility |-> data[i].Data,
         distance |-> CalculateHansenDistance(
                         <<data[i].D, data[i].P, data[i].H>>, center)]]

\* lines 420-421
IsGoodSolvent(s) == s.solubility = Scale
IsPoorSolvent(s) == s.solubility < Scale
GoodSolvents(solvents) == SelectSeq(solvents, IsGoodSolvent)
PoorSolvents(solvents) == SelectSeq(solvents, IsPoorSolvent)

Distances(solvents) == {solvents[i].distance : i \in 1..Len(solvents)}

\* lines 429-437
RaMin_ClosestGood(good_solvents) ==
    IF Len(good_solvents) > 0 THEN SetMin(Distances(good_solvents))
    ELSE DefaultRaMin

RaMin_DefaultOne(good_solvents) ==
    IF Len(good_solvents) > 0 THEN SetMax(Distances(good_solvents))
    ELSE Scale

RaMin(good_solvents) ==
    IF Len(good_solvents) > 0 THEN SetMax(Distances(good_solvents))
    ELSE DefaultRaMin

\* lines 439-447
RaMax(poor_solvents) ==
    IF Len(poor_solvents) > 0 THEN SetMin(Distances(poor_solvents))
    ELSE Infinity

\* line 468: complete separation is possible
Feasible_Strict(Ra_min, Ra_max) == Ra_min < Ra_max

Feasible(Ra_min, Ra_max) == Ra_min <= Ra_max

\* lines 456-459: Ra_optimal = Ra_min, whatever Ra_max is
RaOptimal_FallbackWhenInfeasible(Ra_min, Ra_max) ==
    IF Ra_min <= Ra_max THEN Ra_min ELSE Ra_max

RaOptimal(Ra_min, Ra_max) == Ra_min

\* lines 483-491 for one solvent
IsInside_Inclusive(RED) == RED <= Scale

IsInside(RED) == RED < Scale

IsCorrect(solubility, is_inside) ==
    IF solubility = Scale THEN is_inside ELSE ~is_inside

\* lines 482-503
ClassificationDetails(solvents, Ra_optimal) ==
    [i \in 1..Len(solvents) |->
        LET RED == Div(solvents[i].distance, Ra_optimal)
            is_inside == IsInside(RED)
        IN  [solubility |-> solvents[i].solubility,
             distance |-> solvents[i].distance,
             RED |-> RED,
             is_inside |-> is_inside,
             is_correct |-> IsCorrect(solvents[i].solubility, is_inside)]]

CountCorrect_CountsInside(details) ==
    Cardinality({i \in 1..Len(details) : details[i].is_inside})

CountCorrect(details) ==
    Cardinality({i \in 1..Len(details) : details[i].is_correct})

\* lines 395-564: steps 2-5, given the successful step-1 result
RadiusOnlyResult(solvent_tests, cr) ==
    LET data == ConvertTestsToHspFormat(solvent_tests)
        center == <<cr.delta_d, cr.delta_p, cr.delta_h>>
        solvents == SolventsWithDistance(data, center)
        good_solvents == GoodSolvents(solvents)
        poor_solvents == PoorSolvents(solvents)
        Ra_min == RaMin(good_solvents)
        Ra_max == RaMax(poor_solvents)
        Ra_optimal == RaOptimal(Ra_min, Ra_max)
        feasible == Feasible(Ra_min, Ra_max)
        total == Len(solvents)
        details == ClassificationDetails(solvents, Ra_optimal)
        correct == CountCorrect(details)
        fit == IF total > 0 THEN Div(correct, total) ELSE 0
    IN  IF Len(data) < 2 THEN NoneResult          \* ValueError, line 400
        ELSE IF Ra_optimal = 0 THEN NoneResult        \* ZeroDivisionError, line 483
        ELSE [status |-> "ok",
              delta_d |-> cr.delta_d, delta_p |-> cr.delta_p, delta_h |-> cr.delta_h,
              radius |-> Ra_optimal,
              accuracy |-> fit,
              error |-> 0,
              data_fit |-> fit,
              solvent_count |-> Len(solvent_tests),
              good_solvents |-> Len(good_solvents),
              strategy_used |-> "ra_min_minimum_sphere",
              cross_entropy_Ra |-> cr.radius,
              Ra_min |-> Ra_min,
              Ra_max |-> Ra_max,
              feasible |-> feasible,
              total_solvents |-> total,
              poor_solvents |-> Len(poor_solvents),
              correct_classifications |-> correct,
              incorrect_classifications |-> total - correct,
              classification_details |-> details]

---------------------------------------------------------------------------
(* Loss functions: theory_based_loss.py and continuous_hsp_loss.py *)

\* np.log on a fixed-point value x > 0, rounded to the nearest unit.
\* Computed as k * ln 2 + ln m with x = 2^k * m, 1 <= m < 2, and
\* ln m = 2 * atanh((m - 1) / (m + 1)), on four decimal digits.
LnUnit == 100 * Scale
Ln2Fine == 6931         \* ln 2 on four decimal digits

RECURSIVE LnReduce(_, _, _)
LnReduce(num, den, k) ==
    IF num >= 2 * den THEN LnReduce(num, 2 * den, k + 1)
    ELSE IF num < den THEN LnReduce(2 * num, den, k - 1)
    ELSE LET z  == ((num - den) * LnUnit) \div (num + den)
             z2 == (z * z) \div LnUnit
             z3 == (z2 * z) \div LnUnit
             z5 == (z3 * z2) \div LnUnit
             z7 == (z5 * z2) \div LnUnit
         IN  k * Ln2Fine + 2 * (z + z3 \div 3 + z5 \div 5 + z7 \div 7)

Ln(x) == (LnReduce(x, Scale, 0) + 50) \div 100

\* hansen_distance(X, center) of the loss modules, for one row of X:
\* np.sqrt(np.sum((X - center)**2, axis=1))
HansenDistanceHelper(x, center) ==
    Sqrt((x[1] - center[1]) * (x[1] - center[1])
       + (x[2] - center[2]) * (x[2] - center[2])
       + (x[3] - center[3]) * (x[3] - center[3]))

\* BoundaryDistanceLoss.__call__, lines 44-50
BoundaryDistanceSample_PartialAsPoor(y, red) ==
    IF y = Scale THEN Max(0, red - Scale) ELSE Max(0, Scale - red)

BoundaryDistanceSample(y, red) ==
    IF y = Scale THEN Max(0, red - Scale)
    ELSE IF y = 0 THEN Max(0, Scale - red)
    ELSE Abs(red - Scale)

\* ProportionalBoundaryLoss.__call__, lines 92-96
ProportionalBoundarySample_WeightsSwapped(y, red) ==
    Mul(Scale - y, Max(0, red - Scale)) + Mul(y, Max(0, Scale - red))

ProportionalBoundarySample(y, red) ==
    Mul(y, Max(0, red - Scale)) + Mul(Scale - y, Max(0, Scale - red))

\* LogBarrierLoss.__call__, lines 136-152; epsilon = 1e-6 is below the
\* resolution of the model, so red < 1 - epsilon is red < 1
LogBarrierSample(y, red) ==
    IF y = Scale
    THEN IF red < Scale THEN 0 - Ln(Scale - red) ELSE 10 * (red - Scale)
    ELSE IF y = 0
    THEN IF red > Scale THEN 0 - Ln(red - Scale) ELSE 10 * (Scale - red)
    ELSE Abs(red - Scale)

\* NormalizedDistanceLoss.__call__, lines 193-199; 1.0 / (0 + 1e-6) = 1e6
InvEpsilon == 1000000 * Scale
NormalizedDistanceSample_LabelsSwapped(y, red) ==
    IF y = 0 THEN red
    ELSE IF y = Scale THEN (IF red = 0 THEN InvEpsilon ELSE Div(Scale, red))
    ELSE Abs(red - Scale)

NormalizedDistanceSample(y, red) ==
    IF y = Scale THEN red
    ELSE IF y = 0 THEN (IF red = 0 THEN InvEpsilon ELSE Div(Scale, red))
    ELSE Abs(red - Scale)

\* CrossEntropyStyleLoss.__call__, line 242
PSoluble(red) == Div(Scale, Scale + Mul(red, red))

\* np.log(np.clip(p, 1e-7, 1 - 1e-7)): the clip acts only where p is 0 or 1
\* at the resolution of the model; ln(1e-7) = -16.118, ln(1 - 1e-7) = 0
LogEpsilon == 0 - (16118 * Scale) \div 1000
LogClipped(p) ==
    IF p <= 0 THEN LogEpsilon ELSE IF p >= Scale THEN 0 ELSE Ln(p)

\* CrossEntropyStyleLoss.__call__, lines 245-249
CrossEntropySample_PositiveTermOnly(y, red) ==
    0 - ((y * LogClipped(PSoluble(red))) \div Scale)

CrossEntropySample(y, red) ==
    LET p_soluble == PSoluble(red)
    IN  0 - ((y * LogClipped(p_soluble)
              + (Scale - y) * LogClipped(Scale - p_soluble)) \div Scale)

\* ContinuousHSPLoss.__call__, lines 59-60
ContinuousL2Sample(y, red) ==
    LET over == Max(0, red - Scale)
        under == Max(0, Scale - red)
    IN  Mul(y, Mul(over, over)) + Mul(Scale - y, Mul(under, under))

LossKinds == {"boundary_distance", "proportional_boundary", "log_barrier",
              "normalized_distance", "cross_entropy", "continuous_l2"}

LossPerSample(kind, y, red) ==
    CASE kind = "boundary_distance"     -> BoundaryDistanceSample(y, red)
      [] kind = "proportional_boundary" -> ProportionalBoundarySample(y, red)
      [] kind = "log_barrier"           -> LogBarrierSample(y, red)
      [] kind = "normalized_distance"   -> NormalizedDistanceSample(y, red)
      [] kind = "cross_entropy"         -> CrossEntropySample(y, red)
      [] kind = "continuous_l2"         -> ContinuousL2Sample(y, red)

RECURSIVE SeqSum(_)
SeqSum(q) == IF q = <<>> THEN 0 ELSE Head(q) + SeqSum(Tail(q))

\* np.mean
Mean(q) == SeqSum(q) \div Len(q)

\* size_factor * (R ** 2)
SizePenalty_Linear(size_factor, R) == Mul(size_factor, R)

SizePenalty_InverseSquare(size_factor, R) == Div(size_factor, Mul(R, R))

SizePenalty(size_factor, R) == Mul(size_factor, Mul(R, R))

\* the test that guards the penalty: theory_based_loss.py line 54 (and 100,
\* 156, 203, 253) against continuous_hsp_loss.py line 67
PenaltyApplies(kind, size_factor) ==
    IF kind = "continuous_l2" THEN size_factor # NoValue
    ELSE size_factor # NoValue /\ size_factor > 0

\* <Loss>.__call__(HSP, X, y) of a loss object built with size_factor;
\* data is the converted table, X = data[['D','P','H']], y = data['Data']
LossCall(kind, size_factor, HSP, data) ==
    LET center == <<HSP[1], HSP[2], HSP[3]>>
        R == HSP[4]
        red == [i \in 1..Len(data) |->
                  Div(HansenDistanceHelper(<<data[i].D, data[i].P, data[i].H>>,
                                           center), R)]
        loss_per_sample == [i \in 1..Len(data) |->
                              LossPerSample(kind, data[i].Data, red[i])]
        base_loss == Mean(loss_per_sample)
    IN  [kind |-> kind,
         red |-> red,
         p_soluble |-> IF kind = "cross_entropy"
                       THEN [i \in 1..Len(data) |-> PSoluble(red[i])]
                       ELSE <<>>,
         loss_per_sample |-> loss_per_sample,
         base_loss |-> base_loss,
         value |-> IF PenaltyApplies(kind, size_factor)
                   THEN base_loss + SizePenalty(size_factor, R)
                   ELSE base_loss]

---------------------------------------------------------------------------
(* Specification of a radius-only run *)

NoLossCall == [kind |-> "none"]
NoDist == [status |-> "none"]
NoMin == [status |-> "none"]
\* the threads that call the shared instance hsp_calculator (line 684)
Callers == {1, 2}
\* the frame of a caller that has not called yet
IdleCall == [pc |-> "idle"]

\* nothing was evaluated yet, no scan ran yet
NoEvals == [pool |-> <<>>, log |-> <<>>]
NoScan == [status |-> "none"]

\* the ids uuid.uuid4() hands out, in the order it hands them out
MaxIds == 2
ExperimentIds == 1..MaxIds
\* no file <id>.json in the data directory, no entry for id in the cache
NoFile == [status |-> "absent"]
NoEntry == [status |-> "absent"]
NoRequest == [op |-> "none"]

Init ==
    /\ tests = <<>>
    /\ pc = "input"
    /\ center_result = NoneResult
    /\ hsp_data = <<>>
    /\ result = NoneResult
    /\ loss_call = NoLossCall
    /\ loss_out = NoLossCall
    /\ pts = <<>>
    /\ dist_out = NoDist
    /\ calls = [p \in Callers |-> IdleCall]
    /\ files = <<>>
    /\ min_out = NoMin
    /\ evals = NoEvals
    /\ scan = NoScan
    /\ data_dir = [id \in ExperimentIds |-> NoFile]      \* an empty data directory
    /\ cache = [id \in ExperimentIds |-> NoEntry]        \* line 27
    /\ uuids = 0
    /\ http = NoRequest
    /\ latest = [id \in ExperimentIds |-> NoEntry]

\* the caller builds the list of solvent tests
AddTest(t) ==
    /\ pc = "input"
    /\ Len(tests) < MaxTests
    /\ tests' = Append(tests, t)
    /\ UNCHANGED <<pc, center_result, hsp_data, result, loss_call, loss_out,
                   pts, dist_out, calls, files, min_out, store_vars>>

\* lines 374-393: step 1, the cross_entropy fit of the centre
StepCenter ==
    /\ pc = "input"
    /\ \E cr \in CalculateHspFromTests(tests) :
          /\ center_result' = cr
          /\ IF cr.status = "None"
             THEN pc' = "done"          \* return None, line 387
             ELSE pc' = "radius"
    /\ result' = NoneResult
    /\ UNCHANGED <<tests, hsp_data, loss_call, loss_out, pts, dist_out,
                   calls, files, min_out, store_vars>>

\* lines 395-570: steps 2-5
StepRadius ==
    /\ pc = "radius"
    /\ hsp_data' = ConvertTestsToHspFormat(tests)
    /\ result' = RadiusOnlyResult(tests, center_result)
    /\ pc' = "done"
    /\ UNCHANGED <<tests, center_result, loss_call, loss_out, pts, dist_out,
                   calls, files, min_out, store_vars>>

Next ==
    \/ \E t \in Tests : AddTest(t)
    \/ StepCenter
    \/ StepRadius

Spec == Init /\ [][Next]_vars

---------------------------------------------------------------------------
(* Specification of the loss evaluations an optimizer run makes *)

SizeFactors == {NoValue, 0, Scale \div 2}
\* candidate spheres (D, P, H, R) the optimizer proposes
LossCenters == {<<Scale, 0, 0>>}
LossRadii == {Scale, 2 * Scale}

\* one call loss(HSP, X, y) on the converted tests.  The value of a call
\* depends on its arguments and on size_factor only, so a behaviour follows
\* a single call of the search.
EvaluateLoss(kind, size_factor, HSP) ==
    /\ pc = "input"
    /\ loss_call.kind = "none"
    /\ Len(ConvertTestsToHspFormat(tests)) >= 1
    /\ LET data == ConvertTestsToHspFormat(tests)
       IN  /\ loss_call' = [kind |-> kind, size_factor |-> size_factor,
                            HSP |-> HSP, data |-> data]
           /\ loss_out' = LossCall(kind, size_factor, HSP, data)
    /\ UNCHANGED <<tests, pc, center_result, hsp_data, result, pts,
                   dist_out, calls, files, min_out, store_vars>>

\* the data are fixed once the optimizer has started
AddTestBeforeFit(t) ==
    /\ loss_call.kind = "none"
    /\ AddTest(t)

LossNext ==
    \/ \E t \in Tests : AddTestBeforeFit(t)
    \/ \E kind \in LossKinds, sf \in SizeFactors, c \in LossCenters, R \in LossRadii :
          EvaluateLoss(kind, sf, <<c[1], c[2], c[3], R>>)

LossSpec == Init /\ [][LossNext]_vars

---------------------------------------------------------------------------
(* Properties of radius-only mode *)

Returned == pc = "done" /\ result.status = "ok"
ReturnedCenter == <<result.delta_d, result.delta_p, result.delta_h>>
\* Hansen distance of converted row i to the returned centre
RowDistance(i) ==
    LET row == hsp_data[i]
    IN  CalculateHansenDistance(<<row.D, row.P, row.H>>, ReturnedCenter)
\* RED of converted row i with respect to the returned sphere
RowRED(i) == Div(RowDistance(i), result.radius)
Rows == 1..Len(hsp_data)
GoodRows == {i \in Rows : hsp_data[i].Data = Scale}
PoorRows == {i \in Rows : hsp_data[i].Data < Scale}

\* C1 (stated as claimed): in the result of radius-only mode every
\* observation is predicted inside iff RED < 1.0 and is counted correct iff
\* (score >= 0.5 and inside) or (score < 0.5 and not inside), and the
\* reported number of correct classifications is the number of such rows.
C1_EvaluationRule ==
    Returned =>
        /\ \A i \in Rows :
              LET d == result.classification_details[i]
              IN  /\ d.is_inside <=> (RowRED(i) < Scale)
                  /\ d.is_correct <=>
                        \/ (hsp_data[i].Data >= Scale \div 2 /\ d.is_inside)
                        \/ (hsp_data[i].Data < Scale \div 2 /\ ~d.is_inside)
        /\ result.correct_classifications =
              Cardinality({i \in Rows :
                  \/ (hsp_data[i].Data >= Scale \div 2 /\ RowRED(i) < Scale)
                  \/ (hsp_data[i].Data < Scale \div 2 /\ ~(RowRED(i) < Scale))})

C3_FeasibleCoversGood ==
    (Returned /\ result.feasible) => \A i \in GoodRows : RowRED(i) <= Scale

\* a feasible result with two good observations at different distances
C3_Witness ==
    /\ Returned
    /\ result.feasible
    /\ \E i \in GoodRows : \E j \in GoodRows : RowDistance(i) < RowDistance(j)

\* C4 (stated as claimed): a dataset whose observations all have score 1.0
\* gives Ra_max = +infinity, radius = Ra_min and accuracy = 1.0.
C4_AllGoodAccuracyOne ==
    (Returned /\ GoodRows = Rows) =>
        /\ result.Ra_max = Infinity
        /\ result.radius = result.Ra_min
        /\ result.accuracy = Scale

\* C5: with no observation of score 1.0 the returned radius is 0.1,
\* wherever the poor observations lie.
C5_NoGoodDefaultRadius ==
    (Returned /\ GoodRows = {}) => result.radius = Scale \div 10

\* a returned result for poor observations only, at different places
C5_Witness ==
    /\ Returned
    /\ GoodRows = {}
    /\ \E i \in PoorRows : \E j \in PoorRows : RowDistance(i) # RowDistance(j)

---------------------------------------------------------------------------
(* Specification of the distance functions on two HSP points *)

DefaultRadius == 4 * Scale      \* HSPValues.set_default_radius
SelfRadii == {0, DefaultRadius}

ChoosePoints(a, b) ==
    /\ pts = <<>>
    /\ pts' = <<a, b>>
    /\ UNCHANGED <<tests, pc, center_result, hsp_data, result, loss_call,
                   loss_out, dist_out, calls, files, min_out, store_vars>>

\* every distance function applied to the pair, both ways round, and to each
\* point with itself
ComputeDistances(radius) ==
    /\ pts # <<>>
    /\ dist_out = NoDist
    /\ LET a == pts[1]
           b == pts[2]
       IN  dist_out' =
             [status |-> "ok",
              radius |-> radius,
              calculator |-> [ab |-> CalculateHansenDistance(a, b),
                              ba |-> CalculateHansenDistance(b, a),
                              aa |-> CalculateHansenDistance(a, a),
                              bb |-> CalculateHansenDistance(b, b)],
              hsp_values |-> [ab |-> HSPValuesRa(a, b),
                              ba |-> HSPValuesRa(b, a),
                              aa |-> HSPValuesRa(a, a),
                              bb |-> HSPValuesRa(b, b)],
              red |-> [ab |-> CalculateRed(a, radius, b),
                       aa |-> CalculateRed(a, radius, a)],
              spheroids |-> [ab |-> CalculateDistance(a[1], a[2], a[3], b[1], b[2], b[3]),
                             ba |-> CalculateDistance(b[1], b[2], b[3], a[1], a[2], a[3]),
                             aa |-> CalculateDistance(a[1], a[2], a[3], a[1], a[2], a[3]),
                             bb |-> CalculateDistance(b[1], b[2], b[3], b[1], b[2], b[3])]]
    /\ UNCHANGED <<tests, pc, center_result, hsp_data, result, loss_call,
                   loss_out, pts, calls, files, min_out, store_vars>>

DistNext ==
    \/ \E a \in Points, b \in Points : ChoosePoints(a, b)
    \/ \E radius \in SelfRadii : ComputeDistances(radius)

DistSpec == Init /\ [][DistNext]_vars

---------------------------------------------------------------------------
(* Properties of the distance functions and of the loss family *)

LossEvaluated == loss_call.kind # "none"
LossData == loss_call.data
LossRows == 1..Len(loss_call.data)
LossCenter == <<loss_call.HSP[1], loss_call.HSP[2], loss_call.HSP[3]>>
LossRadius == loss_call.HSP[4]
PenaltyOff == loss_call.size_factor = NoValue \/ loss_call.size_factor = 0

\* C6 (stated as claimed): every RED a loss function uses is the Hansen
\* distance of the calculator, with the weight 4 on the dD axis, divided by R.
C6_LossREDIsHansenRED ==
    LossEvaluated =>
        \A i \in LossRows :
            LET row == LossData[i]
            IN  loss_out.red[i] =
                    Div(CalculateHansenDistance(<<row.D, row.P, row.H>>, LossCenter),
                        LossRadius)

\* C7: for all HSP points a, b each distance function (calculator,
\* HSPValues, concentric spheroids) gives distance(a,a) = 0 = distance(b,b)
\* and distance(a,b) = distance(b,a).
C7_DistanceZeroAndSymmetric ==
    dist_out.status = "ok" =>
        \A f \in {dist_out.calculator, dist_out.hsp_values, dist_out.spheroids} :
            /\ f.aa = 0
            /\ f.bb = 0
            /\ f.ab = f.ba

\* distances computed for two points that differ on every axis
C7_Witness ==
    /\ dist_out.status = "ok"
    /\ pts[1][1] # pts[2][1]
    /\ pts[1][2] # pts[2][2]
    /\ pts[1][3] # pts[2][3]
    /\ dist_out.calculator.ab > 0

\* the condition of C8 on the RED values the loss computed
BoundaryConditionHolds ==
    \A i \in LossRows :
        /\ LossData[i].Data = Scale => loss_out.red[i] <= Scale
        /\ LossData[i].Data = 0     => loss_out.red[i] >= Scale
        /\ LossData[i].Data \notin {0, Scale} => loss_out.red[i] = Scale

\* C8: with the size penalty off, boundary_distance is 0 exactly when every
\* observation of score 1.0 has RED <= 1, every observation of score 0.0 has
\* RED >= 1 and every other observation has RED = 1 (RED as the loss
\* computes it); otherwise it is strictly positive.
C8_BoundaryDistanceZero ==
    (LossEvaluated /\ loss_call.kind = "boundary_distance" /\ PenaltyOff) =>
        /\ BoundaryConditionHolds => loss_out.value = 0
        /\ ~BoundaryConditionHolds => loss_out.value > 0

\* a zero loss with a good, and a partial observation on the boundary
C8_Witness ==
    /\ LossEvaluated
    /\ loss_call.kind = "boundary_distance"
    /\ PenaltyOff
    /\ loss_out.value = 0
    /\ \E i \in LossRows : LossData[i].Data = Scale \div 2
    /\ \E i \in LossRows : LossData[i].Data = Scale /\ loss_out.red[i] < Scale

\* C9: for every loss variant, sphere and dataset, the loss with
\* size_factor s > 0 is the loss with the penalty off plus s * R^2, and
\* size_factor 0 gives the value of size_factor absent.
C9_SizePenaltyAdditive ==
    LossEvaluated =>
        LET off == LossCall(loss_call.kind, NoValue, loss_call.HSP, LossData).value
            s == loss_call.size_factor
        IN  /\ s # NoValue /\ s > 0 =>
                  loss_out.value =
                      off + (s * ((LossRadius * LossRadius) \div Scale)) \div Scale
            /\ s = 0 => loss_out.value = off

\* a penalised evaluation with R = 2
C9_Witness ==
    /\ LossEvaluated
    /\ loss_call.size_factor # NoValue
    /\ loss_call.size_factor > 0
    /\ LossRadius = 2 * Scale
    /\ loss_out.value > loss_out.base_loss

\* C10: in cross_entropy an observation with RED exactly 1 has
\* p = 1/(1 + RED^2) = 1/2 whatever its score, and contributes ln 2 to the
\* loss, for score 0 as for score 1.
C10_CrossEntropyAtBoundary ==
    (LossEvaluated /\ loss_call.kind = "cross_entropy") =>
        \A i \in LossRows :
            loss_out.red[i] = Scale =>
                /\ loss_out.p_soluble[i] = Scale \div 2
                /\ loss_out.loss_per_sample[i] = Ln(2 * Scale)

\* a cross_entropy evaluation with a good and a poor observation at RED = 1
C10_Witness ==
    /\ LossEvaluated
    /\ loss_call.kind = "cross_entropy"
    /\ \E i \in LossRows : LossData[i].Data = Scale /\ loss_out.red[i] = Scale
    /\ \E i \in LossRows : LossData[i].Data = 0 /\ loss_out.red[i] = Scale

---------------------------------------------------------------------------
(* Normal mode: HSPCalculator.calculate_hsp_from_tests, lines 21-179 *)

\* the scores a test can carry: the three labels, and "1.5" for a number
\* outside [0, 1], which _convert_solubility_to_float turns into None
CallSolubilities == Solubilities \cup {"1.5"}
CallPoints == {<<0, 0, 0>>, <<Scale, 0, 0>>}
CallTests == [hsp : CallPoints \cup {NoHSP}, solubility : CallSolubilities]
TestLists == UNION {[1..n -> CallTests] : n \in 0..MaxTests}

\* an argument the caller leaves out
Omitted == "<omitted>"
\* loss_function: str = "cross_entropy", line 25
DefaultLossFunction == "cross_entropy"
\* size_factor: float = 0.0, line 26
DefaultSizeFactor == 0

\* the keys of LOSS_FUNCTIONS
LOSS_FUNCTIONS == {"boundary_distance", "proportional_boundary", "log_barrier",
                   "normalized_distance", "cross_entropy"}
\* the names a caller may pass: the six of the loss family, the two mode
\* selectors of the calculator, a name nobody registered, or none
LossNames == LossKinds \cup {"hspipy_default", "optimize_radius_only",
                             "tanimoto", Omitted}
CallSizeFactors == {NoValue, 0 - Scale \div 2, Scale \div 2}

NoLossFunc == [status |-> "none"]
NoEstimator == [status |-> "none"]

\* get_loss_function(name, size_factor)
GetLossFunction_FallbackToDefault(name, size_factor) ==
    IF name \notin LOSS_FUNCTIONS
    THEN [status |-> "ok", kind |-> "cross_entropy", size_factor |-> size_factor]
    ELSE [status |-> "ok", kind |-> name, size_factor |-> size_factor]

GetLossFunction(name, size_factor) ==
    IF name \notin LOSS_FUNCTIONS
    THEN [status |-> "ValueError", message |-> "Unknown loss function"]
    ELSE [status |-> "ok", kind |-> name, size_factor |-> size_factor]

\* what estimator.fit(X, y) leaves on the estimator.  The search of
\* HSPEstimator is an external numerical dependency: hsp_ may be missing,
\* the radius entry may be None, accuracy_ and datafit_ may be absent, and
\* the search may or may not have converged (a flag the estimator keeps to
\* itself).
EstimatorCenters == CallPoints
EstimatorRadii == {NoValue, Scale}
EstimatorOutcomes ==
    {[status |-> "fitted", hsp_ |-> <<>>, accuracy_ |-> NoValue,
      error_ |-> NoValue, datafit_ |-> NoValue, converged |-> FALSE]}
    \cup
    {[status |-> "fitted", hsp_ |-> <<c[1], c[2], c[3], r>>, accuracy_ |-> a,
      error_ |-> 0, datafit_ |-> a, converged |-> k] :
        c \in EstimatorCenters, r \in EstimatorRadii,
        a \in {NoValue, Scale \div 2}, k \in BOOLEAN}

\* lines 21-45 (and 379-383 for the radius-only mode, which runs the normal
\* mode with loss_function = 'cross_entropy', size_factor = 0.0 first)
EnterCall(solvent_tests, loss_function, size_factor) ==
    LET lf == IF loss_function = Omitted THEN DefaultLossFunction
              ELSE loss_function
        sf == IF size_factor = NoValue THEN DefaultSizeFactor ELSE size_factor
        radius_only == lf = "optimize_radius_only"
    IN  [pc |-> "convert",
         solvent_tests |-> solvent_tests,
         given |-> [loss_function |-> loss_function, size_factor |-> size_factor],
         requested |-> [loss_function |-> lf, size_factor |-> sf],
         radius_only |-> radius_only,
         loss_function |-> IF radius_only THEN "cross_entropy" ELSE lf,
         size_factor |-> IF radius_only THEN 0 ELSE sf,
         hsp_data |-> <<>>,
         tmp_filename |-> 0,
         loss_func |-> NoLossFunc,
         estimator |-> NoEstimator,
         fit_runs |-> 0,
         error |-> "",
         center_result |-> NoneResult,
         result |-> NoneResult]

\* lines 177-179 (and 385-387, 566-570): the exception is printed and the
\* call returns None
Fail(c, message) ==
    [c EXCEPT !.pc = "done", !.error = message, !.result = NoneResult]

\* lines 48-56: conversion, the check of the row count, the temporary file
ConvertStep_LenBelowOne(c, tmp_filename) ==
    LET data == ConvertTestsToHspFormat(c.solvent_tests)
    IN  IF Len(data) < 1
        THEN Fail(c, "At least 2 solvent tests are required for HSP calculation")
        ELSE [c EXCEPT !.pc = "select", !.hsp_data = data,
                       !.tmp_filename = tmp_filename]

ConvertStep(c, tmp_filename) ==
    LET data == ConvertTestsToHspFormat(c.solvent_tests)
    IN  IF Len(data) < 2
        THEN Fail(c, "At least 2 solvent tests are required for HSP calculation")
        ELSE [c EXCEPT !.pc = "select", !.hsp_data = data,
                       !.tmp_filename = tmp_filename]

\* lines 63-81: the estimator and its loss object
SelectStep(c) ==
    IF c.loss_function = "hspipy_default"
    THEN [c EXCEPT !.pc = "fit"]
    ELSE LET loss_func == GetLossFunction(c.loss_function,
                              IF c.size_factor > 0 THEN c.size_factor
                              ELSE NoValue)
         IN  IF loss_func.status = "ValueError"
             THEN Fail(c, loss_func.message)
             ELSE [c EXCEPT !.pc = "fit", !.loss_func = loss_func]

\* line 84: estimator.fit(X, y)
FitStep(c, outcome) ==
    [c EXCEPT !.pc = "extract", !.estimator = outcome,
              !.fit_runs = c.fit_runs + 1]

\* lines 97-100
ExtractCoordinate(v) == IF v # NoValue THEN v ELSE 0
ExtractRadius_ZeroFallback(v) == IF v # NoValue THEN v ELSE 0
ExtractRadius(v) == IF v # NoValue THEN v ELSE Scale
\* lines 109-132
ExtractMetric(v) == IF v # NoValue THEN v ELSE 0

\* lines 145-163
NormalResult(c) ==
    LET hsp_info == c.estimator.hsp_
        classic == c.loss_function = "hspipy_default"
    IN  [status |-> "ok",
         delta_d |-> ExtractCoordinate(hsp_info[1]),
         delta_p |-> ExtractCoordinate(hsp_info[2]),
         delta_h |-> ExtractCoordinate(hsp_info[3]),
         radius |-> ExtractRadius(hsp_info[4]),
         accuracy |-> ExtractMetric(c.estimator.accuracy_),
         error |-> ExtractMetric(c.estimator.error_),
         data_fit |-> ExtractMetric(c.estimator.datafit_),
         method |-> IF classic THEN "HSPiPy-default"
                    ELSE "HSPiPy-" \o c.loss_function,
         solvent_count |-> Len(c.solvent_tests),
         good_solvents |-> Cardinality({i \in 1..Len(c.solvent_tests) :
                               c.solvent_tests[i].solubility = "soluble"}),
         calculation_details |->
             [loss_function |-> c.loss_function,
              size_factor |-> c.size_factor,
              optimization_method |-> IF classic THEN "classic"
                                      ELSE "differential_evolution",
              sphere_model |-> "single"]]

\* lines 86-169 (and 385-393 when the call is step 1 of the radius-only mode)
ExtractStep_RadiusAfterFailedFit(c) ==
    IF c.estimator.hsp_ = <<>>
    THEN IF c.radius_only
         THEN [c EXCEPT !.pc = "radius",
                        !.center_result = [status |-> "ok", delta_d |-> 0,
                                           delta_p |-> 0, delta_h |-> 0,
                                           radius |-> Scale]]
         ELSE Fail(c, "Failed to extract HSP results from fitted model")
    ELSE IF c.radius_only
         THEN [c EXCEPT !.pc = "radius", !.center_result = NormalResult(c)]
         ELSE [c EXCEPT !.pc = "done", !.result = NormalResult(c)]

ExtractStep(c) ==
    IF c.estimator.hsp_ = <<>>
    THEN Fail(c, "Failed to extract HSP results from fitted model")
    ELSE IF c.radius_only
         THEN [c EXCEPT !.pc = "radius", !.center_result = NormalResult(c)]
         ELSE [c EXCEPT !.pc = "done", !.result = NormalResult(c)]

\* lines 395-570: steps 2-5 of the radius-only mode
RadiusStep(c) ==
    LET r == RadiusOnlyResult(c.solvent_tests, c.center_result)
    IN  IF r.status = "None" THEN Fail(c, "Radius optimization error")
        ELSE [c EXCEPT !.pc = "done", !.result = r]

\* the whole call, given the name of its temporary file and what the search
\* of the estimator produces
RunCall(solvent_tests, loss_function, size_factor, tmp_filename, outcome) ==
    LET c1 == ConvertStep(EnterCall(solvent_tests, loss_function, size_factor),
                          tmp_filename)
        c2 == IF c1.pc = "select" THEN SelectStep(c1) ELSE c1
        c3 == IF c2.pc = "fit" THEN FitStep(c2, outcome) ELSE c2
        c4 == IF c3.pc = "extract" THEN ExtractStep(c3) ELSE c3
    IN  IF c4.pc = "radius" THEN RadiusStep(c4) ELSE c4

\* tempfile.NamedTemporaryFile(delete=False): a name no file has yet
NewTmpFile_FixedName(fs) == 1
NewTmpFile(fs) == Len(fs) + 1

\* hsp_data.to_csv(tmp_filename)
WriteFile(fs, name, content) ==
    IF name \in DOMAIN fs THEN [fs EXCEPT ![name] = content]
    ELSE Append(fs, content)

---------------------------------------------------------------------------
(* Specification of one call of calculate_hsp_from_tests *)

CalculateHspFromTestsCall(p, solvent_tests, loss_function, size_factor, outcome) ==
    /\ calls[p].pc = "idle"
    /\ LET c == RunCall(solvent_tests, loss_function, size_factor,
                        NewTmpFile(files), outcome)
       IN  /\ calls' = [calls EXCEPT ![p] = c]
           /\ files' = IF c.tmp_filename # 0
                       THEN WriteFile(files, c.tmp_filename, c.hsp_data)
                       ELSE files
    /\ UNCHANGED <<tests, pc, center_result, hsp_data, result, loss_call,
                   loss_out, pts, dist_out, min_out, store_vars>>

FitNext ==
    /\ calls[1].pc = "idle"
    /\ \E solvent_tests \in TestLists, loss_function \in LossNames,
          size_factor \in CallSizeFactors, outcome \in EstimatorOutcomes :
             CalculateHspFromTestsCall(1, solvent_tests, loss_function,
                                       size_factor, outcome)

FitSpec == Init /\ [][FitNext]_vars

---------------------------------------------------------------------------
(* Properties of a call of calculate_hsp_from_tests *)

\* the call of the single caller of FitSpec
TheCall == calls[1]
Finished == TheCall.pc = "done"
\* the observations of a list that have complete coordinates and a valid score
ValidObservations(solvent_tests) ==
    {i \in 1..Len(solvent_tests) :
        /\ solvent_tests[i].hsp # NoHSP
        /\ solvent_tests[i].solubility \in {"soluble", "partial", "insoluble"}}
InsufficientData ==
    "At least 2 solvent tests are required for HSP calculation"

\* C11: a call with fewer than 2 valid observations (observations without
\* complete coordinates or with an invalid score dropped) ends with the
\* insufficient-data error, without any run of the optimizer and without a
\* fitted sphere, in the normal mode and in the radius-only mode.
C11_InsufficientDataFailsFast ==
    (Finished /\ Cardinality(ValidObservations(TheCall.solvent_tests)) < 2) =>
        /\ TheCall.error = InsufficientData
        /\ TheCall.fit_runs = 0
        /\ TheCall.result = NoneResult

C11_Witness ==
    /\ Finished
    /\ TheCall.radius_only
    /\ Len(TheCall.solvent_tests) = 2
    /\ Cardinality(ValidObservations(TheCall.solvent_tests)) = 1
    /\ \E i \in 1..2 : /\ TheCall.solvent_tests[i].solubility = "1.5"
                       /\ TheCall.solvent_tests[i].hsp # NoHSP
    /\ TheCall.error = InsufficientData

UnknownLossFunction == "Unknown loss function"
\* the mode selectors that calculate_hsp_from_tests handles itself
ModeSelectors == {"hspipy_default", "optimize_radius_only"}

\* C12 (as claimed): a call with a loss-function name outside the
\* enumeration of the six loss variants ends with the unknown-loss-function
\* error and never runs the optimizer.
C12_NameOutsideEnumerationFails ==
    (Finished /\ TheCall.requested.loss_function \notin LossKinds) =>
        /\ TheCall.error = UnknownLossFunction
        /\ TheCall.fit_runs = 0

\* C12 (amended): a call with a loss-function name that is neither
\* registered in LOSS_FUNCTIONS nor a mode selector never runs the optimizer
\* and returns no sphere; its error is the unknown-loss-function error when
\* there are at least 2 valid observations and the insufficient-data error
\* otherwise.
C12_UnregisteredNameFails ==
    (Finished /\ TheCall.requested.loss_function
                    \notin (LOSS_FUNCTIONS \cup ModeSelectors)) =>
        /\ TheCall.fit_runs = 0
        /\ TheCall.result = NoneResult
        /\ TheCall.error =
              IF Cardinality(ValidObservations(TheCall.solvent_tests)) >= 2
              THEN UnknownLossFunction ELSE InsufficientData

C12_Witness ==
    /\ Finished
    /\ TheCall.requested.loss_function = "tanimoto"
    /\ Cardinality(ValidObservations(TheCall.solvent_tests)) = 2
    /\ TheCall.error = UnknownLossFunction
    /\ TheCall.fit_runs = 0

\* C13: with enough data, each of the six names boundary_distance,
\* proportional_boundary, log_barrier, normalized_distance, cross_entropy
\* and continuous_l2 is accepted and selects the loss of that name, and a
\* call that gives no loss name uses continuous_l2.
C13_SixNamesAndDefault ==
    (Finished /\ Cardinality(ValidObservations(TheCall.solvent_tests)) >= 2) =>
        /\ TheCall.given.loss_function \in LossKinds =>
              /\ TheCall.loss_func.status = "ok"
              /\ TheCall.loss_func.kind = TheCall.given.loss_function
        /\ TheCall.given.loss_function = Omitted =>
              /\ TheCall.loss_func.status = "ok"
              /\ TheCall.loss_func.kind = "continuous_l2"

\* C14: a call with a negative size_factor ends with an error before the
\* optimizer runs, and returns no sphere.
C14_NegativeSizeFactorRejected ==
    (/\ Finished
     /\ TheCall.given.size_factor # NoValue
     /\ TheCall.given.size_factor < 0) =>
        /\ TheCall.fit_runs = 0
        /\ TheCall.error # ""
        /\ TheCall.result = NoneResult

\* C15: a result returned after a search that did not converge is the best
\* point the search found and carries converged = FALSE; a result carries
\* converged = TRUE only if the search reported convergence.
C15_ConvergedFlagReported ==
    (Finished /\ ~TheCall.radius_only /\ TheCall.result.status = "ok") =>
        /\ TheCall.estimator.hsp_[1] = TheCall.result.delta_d
        /\ TheCall.estimator.hsp_[2] = TheCall.result.delta_p
        /\ TheCall.estimator.hsp_[3] = TheCall.result.delta_h
        /\ "converged" \in DOMAIN TheCall.result
        /\ TheCall.result.converged = TheCall.estimator.converged

\* the converted rows of the call with score 1.0
CallGoodRows ==
    {i \in 1..Len(TheCall.hsp_data) : TheCall.hsp_data[i].Data = Scale}
\* Hansen distance of converted row i to the centre fitted by step 1
CallCenterDistance(i) ==
    LET row == TheCall.hsp_data[i]
    IN  CalculateHansenDistance(<<row.D, row.P, row.H>>,
            <<TheCall.center_result.delta_d, TheCall.center_result.delta_p,
              TheCall.center_result.delta_h>>)
\* step 1 succeeded and every good observation sits on the fitted centre
GoodOnCenterOnly ==
    /\ TheCall.radius_only
    /\ TheCall.center_result.status = "ok"
    /\ CallGoodRows # {}
    /\ \A i \in CallGoodRows : CallCenterDistance(i) = 0

---------------------------------------------------------------------------
(* Properties of the statistics of a radius-only run (specification Spec) *)

\* the rows that the returned sphere classifies as the mode records it:
\* score 1.0 inside (RED < 1), any other score not inside
CorrectRows ==
    {i \in Rows : IF hsp_data[i].Data = Scale THEN RowRED(i) < Scale
                  ELSE ~(RowRED(i) < Scale)}

---------------------------------------------------------------------------
(* Specification of two calls through the shared instance hsp_calculator.  *)
(* A call keeps its data in its own frame (Python locals); what the calls  *)
(* share is the calculator object, whose only field hsp_engine is set in   *)
(* __init__ and never written again, and the directory of temporary files. *)
(* The calls are interleaved statement group by statement group.           *)

ConcTestLists ==
    {<<[hsp |-> <<0, 0, 0>>, solubility |-> "soluble"],
       [hsp |-> <<Scale, 0, 0>>, solubility |-> "insoluble"]>>,
     <<[hsp |-> <<Scale, 0, 0>>, solubility |-> "soluble"],
       [hsp |-> <<0, 0, 0>>, solubility |-> "partial"]>>,
     <<[hsp |-> <<0, 0, 0>>, solubility |-> "soluble"]>>}
ConcLossNames == {"cross_entropy", "optimize_radius_only", "tanimoto"}
ConcSizeFactors == {NoValue, Scale \div 2}
ConcOutcomes ==
    {o \in EstimatorOutcomes :
        o.hsp_ # <<>> => /\ o.hsp_[4] # NoValue
                         /\ o.accuracy_ # NoValue
                         /\ o.converged}

ConcUnchanged ==
    UNCHANGED <<tests, pc, center_result, hsp_data, result, loss_call,
                loss_out, pts, dist_out, min_out, store_vars>>

\* lines 21-45
CallEnter(p, solvent_tests, loss_function, size_factor) ==
    /\ calls[p].pc = "idle"
    /\ calls' = [calls EXCEPT
                    ![p] = EnterCall(solvent_tests, loss_function, size_factor)]
    /\ UNCHANGED files
    /\ ConcUnchanged

\* lines 48-56
CallConvert(p) ==
    /\ calls[p].pc = "convert"
    /\ LET c == ConvertStep(calls[p], NewTmpFile(files))
       IN  /\ calls' = [calls EXCEPT ![p] = c]
           /\ files' = IF c.tmp_filename # 0
                       THEN WriteFile(files, c.tmp_filename, c.hsp_data)
                       ELSE files
    /\ ConcUnchanged

\* lines 63-81
CallSelect(p) ==
    /\ calls[p].pc = "select"
    /\ calls' = [calls EXCEPT ![p] = SelectStep(calls[p])]
    /\ UNCHANGED files
    /\ ConcUnchanged

\* line 84
CallFit(p, outcome) ==
    /\ calls[p].pc = "fit"
    /\ calls' = [calls EXCEPT ![p] = FitStep(calls[p], outcome)]
    /\ UNCHANGED files
    /\ ConcUnchanged

\* lines 86-169
CallExtract(p) ==
    /\ calls[p].pc = "extract"
    /\ calls' = [calls EXCEPT ![p] = ExtractStep(calls[p])]
    /\ UNCHANGED files
    /\ ConcUnchanged

\* lines 395-570
CallRadius(p) ==
    /\ calls[p].pc = "radius"
    /\ calls' = [calls EXCEPT ![p] = RadiusStep(calls[p])]
    /\ UNCHANGED files
    /\ ConcUnchanged

ConcNext ==
    \E p \in Callers :
        \/ \E solvent_tests \in ConcTestLists, loss_function \in ConcLossNames,
              size_factor \in ConcSizeFactors :
                 CallEnter(p, solvent_tests, loss_function, size_factor)
        \/ CallConvert(p)
        \/ CallSelect(p)
        \/ \E outcome \in ConcOutcomes : CallFit(p, outcome)
        \/ CallExtract(p)
        \/ CallRadius(p)

ConcSpec == Init /\ [][ConcNext]_vars

\* what the call in frame c returns when it runs alone, with the same
\* arguments, temporary file name and outcome of the search
RunAlone(c) ==
    RunCall(c.solvent_tests, c.given.loss_function, c.given.size_factor,
            c.tmp_filename, c.estimator)

\* C18: whatever the interleaving of two calls through the shared
\* calculator, each finished call has the frame and the result it has when
\* run alone, and the temporary file of a call holds the data of that call:
\* nothing one call writes is read or overwritten by the other.
C18_CallsDoNotInterfere ==
    \A p \in Callers :
        /\ calls[p].pc = "done" => calls[p] = RunAlone(calls[p])
        /\ (calls[p].pc # "idle" /\ calls[p].tmp_filename # 0) =>
              /\ calls[p].tmp_filename \in DOMAIN files
              /\ files[calls[p].tmp_filename] = calls[p].hsp_data

C18_Witness ==
    /\ calls[1].pc = "done"
    /\ calls[2].pc = "done"
    /\ calls[1].tmp_filename = 2
    /\ calls[2].tmp_filename = 1
    /\ calls[1].result.status = "ok"
    /\ calls[2].result.status = "ok"
    /\ calls[1].radius_only
    /\ ~calls[2].radius_only
    /\ calls[1].hsp_data # calls[2].hsp_data

---------------------------------------------------------------------------
(* Specification of the minimisation the estimator aims at: the spheres of *)
(* the search space that minimise the loss on the converted data, for the  *)
(* loss without penalty and for the loss with size_factor s.               *)

\* the datasets: at least two observations on two solvents 2 apart
MinPoints == {<<0, 0, 0>>, <<2 * Scale, 0, 0>>}
MinTests == [hsp : MinPoints, solubility : Solubilities]
MinTestLists == UNION {[1..n -> MinTests] : n \in 2..MaxTests}
MinCenters == MinPoints
MinRadii == {Scale, 2 * Scale, 3 * Scale}
\* the spheres (D, P, H, R) the search may propose
CandidateSpheres ==
    {<<c[1], c[2], c[3], R>> : c \in MinCenters, R \in MinRadii}
MinSizeFactors == {Scale \div 10, Scale \div 2}

\* the candidates on which loss(HSP, X, y) is least
Minimizers(kind, size_factor, candidates, data) ==
    LET value(HSP) == LossCall(kind, size_factor, HSP, data).value
        best == SetMin({value(HSP) : HSP \in candidates})
    IN  {HSP \in candidates : value(HSP) = best}

Minimize(solvent_tests, kind, size_factor) ==
    /\ min_out.status = "none"
    /\ LET data == ConvertTestsToHspFormat(solvent_tests)
       IN  /\ Len(data) >= 2
           /\ min_out' =
                [status |-> "ok", kind |-> kind, size_factor |-> size_factor,
                 data |-> data,
                 minimizers_0 |-> Minimizers(kind, 0, CandidateSpheres, data),
                 minimizers_s |-> Minimizers(kind, size_factor,
                                             CandidateSpheres, data)]
    /\ UNCHANGED <<tests, pc, center_result, hsp_data, result, loss_call,
                   loss_out, pts, dist_out, calls, files, store_vars>>

MinNext ==
    /\ min_out.status = "none"
    /\ \E solvent_tests \in MinTestLists, kind \in LossKinds,
          size_factor \in MinSizeFactors :
             Minimize(solvent_tests, kind, size_factor)

MinSpec == Init /\ [][MinNext]_vars

\* C19: for a fixed dataset, loss and search space, no minimizer of the
\* loss with size_factor s > 0 has a larger radius than a minimizer of the
\* loss with size_factor 0.
C19_PenaltyNeverGrowsRadius ==
    min_out.status = "ok" =>
        \A m0 \in min_out.minimizers_0, ms \in min_out.minimizers_s :
            ms[4] <= m0[4]

C19_Witness ==
    /\ min_out.status = "ok"
    /\ min_out.kind = "proportional_boundary"
    /\ \A m0 \in min_out.minimizers_0 : m0[4] >= 2 * Scale
    /\ \E ms \in min_out.minimizers_s : ms[4] < 2 * Scale

---------------------------------------------------------------------------
(* Scenario A: one good observation and one poor observation at Hansen     *)
(* distance 10 from it, fitted by each loss over a lattice of the default  *)
(* search box dD in [5, 30], dP in [0, 50], dH in [0, 50], R in [1, 20].   *)

BoxD == {5 * k * Scale : k \in 1..6}
BoxP == {10 * k * Scale : k \in 0..5}
BoxH == {10 * k * Scale : k \in 0..5}
BoxR == {Scale, 5 * Scale, 10 * Scale, 15 * Scale, 20 * Scale}
ScenarioSpheres ==
    {<<d, p, h, R>> : d \in BoxD, p \in BoxP, h \in BoxH, R \in BoxR}

\* where the good observation sits, and the offsets of Hansen length 10
\* (4 * 5^2 = 4 * 3^2 + 8^2 = 4 * 4^2 + 6^2 = 6^2 + 8^2 = 10^2)
ScenarioGood ==
    {<<15 * Scale, 10 * Scale, 10 * Scale>>,
     <<20 * Scale, 20 * Scale, 20 * Scale>>,
     <<10 * Scale, 30 * Scale, 10 * Scale>>}
ScenarioOffsets ==
    {<<5 * Scale, 0, 0>>, <<0, 10 * Scale, 0>>, <<0, 0, 0 - 10 * Scale>>,
     <<3 * Scale, 8 * Scale, 0>>, <<0 - 4 * Scale, 0, 6 * Scale>>,
     <<0, 6 * Scale, 0 - 8 * Scale>>}
ScenarioData(good, offset) ==
    <<[D |-> good[1], P |-> good[2], H |-> good[3], Data |-> Scale],
      [D |-> good[1] + offset[1], P |-> good[2] + offset[2],
       H |-> good[3] + offset[3], Data |-> 0]>>

\* the evaluation of a fitted sphere, as test_theory_based_loss.py lines
\* 63-82 count it: predicted good iff RED < 1, actually good iff y >= 0.5;
\* RED is taken with the Hansen distance of the calculator
EvaluateAccuracy(HSP, data) ==
    LET red(i) == Div(CalculateHansenDistance(
                          <<data[i].D, data[i].P, data[i].H>>,
                          <<HSP[1], HSP[2], HSP[3]>>), HSP[4])
        correct == {i \in 1..Len(data) :
                       (red(i) < Scale) = (data[i].Data >= Scale \div 2)}
    IN  Div(Cardinality(correct), Len(data))

FitScenario(good, offset, kind) ==
    /\ min_out.status = "none"
    /\ LET data == ScenarioData(good, offset)
       IN  min_out' =
             [status |-> "scenario", kind |-> kind, data |-> data,
              minimizers |-> Minimizers(kind, NoValue, ScenarioSpheres, data)]
    /\ UNCHANGED <<tests, pc, center_result, hsp_data, result, loss_call,
                   loss_out, pts, dist_out, calls, files, store_vars>>

ScenarioNext ==
    /\ min_out.status = "none"
    /\ \E good \in ScenarioGood, offset \in ScenarioOffsets, kind \in LossKinds :
          FitScenario(good, offset, kind)

ScenarioSpec == Init /\ [][ScenarioNext]_vars

\* C20: in scenario A, for each loss of the family, some minimizer of the
\* loss within the search box classifies both observations correctly under
\* the evaluation rule: accuracy 1.0.
C20_ScenarioAFitsPerfectly ==
    min_out.status = "scenario" =>
        \E m \in min_out.minimizers :
            EvaluateAccuracy(m, min_out.data) = Scale

C20_Witness ==
    /\ min_out.status = "scenario"
    /\ min_out.kind = "normalized_distance"
    /\ min_out.data[1].D # min_out.data[2].D
    /\ \E m \in min_out.minimizers :
          /\ EvaluateAccuracy(m, min_out.data) = Scale
          /\ m[1] = min_out.data[1].D
          /\ m[2] = min_out.data[1].P
          /\ m[3] = min_out.data[1].H
    /\ CalculateHansenDistance(
          <<min_out.data[1].D, min_out.data[1].P, min_out.data[1].H>>,
          <<min_out.data[2].D, min_out.data[2].P, min_out.data[2].H>>)
       = 10 * Scale

---------------------------------------------------------------------------
(* The evaluations: the final metrics of the radius-only mode           *)
(* (hsp_calculator.py lines 477-505) and evaluate_with_loss             *)
(* (hansentest/evaluation_metrics.py)                                   *)

\* hsp_calculator.py lines 477-505 for a sphere (D, P, H, R) and a converted
\* table: the distances of lines 404-417, then the count of the correct rows.
\* correct and classification_details are locals that every evaluation
\* starts afresh (lines 477 and 480).
EvaluateMetrics_CountCarriedOver(sphere, data) ==
    LET solvents == SolventsWithDistance(data, <<sphere[1], sphere[2], sphere[3]>>)
        details == ClassificationDetails(solvents, sphere[4])
        earlier == {i \in 1..Len(evals.log) : evals.log[i].fn = "metrics"}
        carried == IF earlier = {} THEN 0
                   ELSE evals.log[SetMax(earlier)].out.correct
        correct == carried + CountCorrect(details)
        total == Len(solvents)
    IN  [fit |-> IF total > 0 THEN Div(correct, total) ELSE 0,
         correct |-> correct,
         total |-> total,
         classification_details |-> details]

EvaluateMetrics(sphere, data) ==
    LET solvents == SolventsWithDistance(data, <<sphere[1], sphere[2], sphere[3]>>)
        details == ClassificationDetails(solvents, sphere[4])
        correct == CountCorrect(details)
        total == Len(solvents)
    IN  [fit |-> IF total > 0 THEN Div(correct, total) ELSE 0,
         correct |-> correct,
         total |-> total,
         classification_details |-> details]

\* evaluate_with_loss(hsp, X, y, size_factor), evaluation_metrics.py 13-65
EvaluateWithLoss(hsp, data, size_factor) ==
    LET center == <<hsp[1], hsp[2], hsp[3]>>
        R == hsp[4]
        red == [i \in 1..Len(data) |->
                  Div(HansenDistanceHelper(<<data[i].D, data[i].P, data[i].H>>,
                                           center), R)]
        over(i) == Max(0, red[i] - Scale)
        under(i) == Max(0, Scale - red[i])
        good_penalty == [i \in 1..Len(data) |->
                            Mul(data[i].Data, Mul(over(i), over(i)))]
        poor_penalty == [i \in 1..Len(data) |->
                            Mul(Scale - data[i].Data, Mul(under(i), under(i)))]
        per_sample_penalty == [i \in 1..Len(data) |->
                                  good_penalty[i] + poor_penalty[i]]
        base_loss == Mean(per_sample_penalty)
        size_penalty == IF size_factor # NoValue
                        THEN SizePenalty(size_factor, R) ELSE 0
    IN  [total_loss |-> base_loss + size_penalty,
         base_loss |-> base_loss,
         size_penalty |-> size_penalty,
         good_penalty_mean |-> Mean(good_penalty),
         poor_penalty_mean |-> Mean(poor_penalty),
         per_sample_loss |-> per_sample_penalty,
         red_values |-> red]

\* the spheres and the tables a caller holds and hands to the evaluations
EvalSpheres == {<<c[1], c[2], c[3], r>> :
                   c \in {<<0, 0, 0>>, <<Scale, 0, 0>>}, r \in {Scale, 2 * Scale}}
EvalRows == {[D |-> d, P |-> 0, H |-> 0, Data |-> y] :
                d \in {0, Scale}, y \in {0, Scale \div 2, Scale}}
EvalTables == {<<a, b>> : a \in {r \in EvalRows : r.D = 0 /\ r.Data > 0},
                          b \in {r \in EvalRows : r.D = Scale /\ r.Data # Scale \div 2}}
EvalSizeFactors == {NoValue, Scale \div 2}
MaxPool == 2
MaxEvals == 3

\* the caller builds one more sphere and table
Supply(sphere, data) ==
    /\ Len(evals.pool) < MaxPool
    /\ evals' = [evals EXCEPT !.pool = Append(@, [sphere |-> sphere, data |-> data])]
    /\ UNCHANGED <<calc_vars, scan, manager_vars>>

\* one evaluation of the sphere and table in slot k.  Neither function
\* assigns to its arguments: the pool is what it was.
RunEvaluateMetrics(k) ==
    /\ k \in 1..Len(evals.pool)
    /\ Len(evals.log) < MaxEvals
    /\ LET in == evals.pool[k]
       IN  evals' = [evals EXCEPT !.log = Append(@,
                        [fn |-> "metrics", slot |-> k, sphere |-> in.sphere,
                         data |-> in.data, size_factor |-> NoValue,
                         out |-> EvaluateMetrics(in.sphere, in.data)])]
    /\ UNCHANGED <<calc_vars, scan, manager_vars>>

RunEvaluateWithLoss(k, size_factor) ==
    /\ k \in 1..Len(evals.pool)
    /\ Len(evals.log) < MaxEvals
    /\ LET in == evals.pool[k]
       IN  evals' = [evals EXCEPT !.log = Append(@,
                        [fn |-> "loss", slot |-> k, sphere |-> in.sphere,
                         data |-> in.data, size_factor |-> size_factor,
                         out |-> EvaluateWithLoss(in.sphere, in.data, size_factor)])]
    /\ UNCHANGED <<calc_vars, scan, manager_vars>>

EvalNext ==
    \/ \E sphere \in EvalSpheres, data \in EvalTables : Supply(sphere, data)
    \/ \E k \in 1..MaxPool : RunEvaluateMetrics(k)
    \/ \E k \in 1..MaxPool, size_factor \in EvalSizeFactors :
          RunEvaluateWithLoss(k, size_factor)

EvalSpec == Init /\ [][EvalNext]_vars

---------------------------------------------------------------------------
(* The experiment store: services/data_manager.py                          *)

\* HSPExperimentData, with the fields the manager and the endpoints treat
\* differently: sample_name and solvent_tests come from a request (as do
\* description, experimenter, notes and tags, which are handled like
\* sample_name), created_at and updated_at are timestamps, calculated_hsp is
\* the stored result (NoneResult = None).
Times == {1, 2}                 \* values datetime.now() may return
Experiment(sample_name, solvent_tests, created_at) ==
    [sample_name |-> sample_name, solvent_tests |-> solvent_tests,
     created_at |-> created_at, updated_at |-> NoValue,
     calculated_hsp |-> NoneResult]

\* lines 43-47: experiment.model_dump() with the id added, written as JSON
Dump(experiment, experiment_id) ==
    [id |-> experiment_id,
     sample_name |-> experiment.sample_name,
     solvent_tests |-> experiment.solvent_tests,
     created_at |-> experiment.created_at,
     updated_at |-> experiment.updated_at,
     calculated_hsp |-> experiment.calculated_hsp]

\* lines 72-79: the JSON read back, the id dropped, the model rebuilt
Parse(data) ==
    [sample_name |-> data.sample_name,
     solvent_tests |-> data.solvent_tests,
     created_at |-> data.created_at,
     updated_at |-> data.updated_at,
     calculated_hsp |-> data.calculated_hsp]

\* the manager as a value: its directory, its cache, the ids handed out
Store == [data_dir |-> data_dir, cache |-> cache, uuids |-> uuids]

\* save_experiment, lines 29-57; ret is the new id.  The timestamp is set
\* on the object of the caller, which is also the object put in the cache.
SaveExperiment(st, experiment, now) ==
    LET experiment_id == st.uuids + 1
        e == [experiment EXCEPT !.updated_at = now]
    IN  [st |-> [data_dir |-> [st.data_dir EXCEPT
                                  ![experiment_id] = Dump(e, experiment_id)],
                 cache |-> [st.cache EXCEPT ![experiment_id] = e],
                 uuids |-> experiment_id],
         ret |-> experiment_id,
         experiment |-> e]

\* load_experiment, lines 59-88; ret = NoEntry is None
LoadExperiment(st, experiment_id) ==
    IF st.cache[experiment_id] # NoEntry
    THEN [st |-> st, ret |-> st.cache[experiment_id]]
    ELSE IF st.data_dir[experiment_id] = NoFile
    THEN [st |-> st, ret |-> NoEntry]
    ELSE LET experiment == Parse(st.data_dir[experiment_id])
         IN  [st |-> [st EXCEPT !.cache[experiment_id] = experiment],
              ret |-> experiment]

\* delete_experiment, lines 133-150
DeleteExperiment_KeepsCache(st, experiment_id) ==
    [st |-> [st EXCEPT !.data_dir[experiment_id] = NoFile],
     ret |-> TRUE]

DeleteExperiment(st, experiment_id) ==
    [st |-> [st EXCEPT !.data_dir[experiment_id] = NoFile,
                       !.cache[experiment_id] = NoEntry],
     ret |-> TRUE]

\* update_experiment, lines 152-180
UpdateExperiment(st, experiment_id, experiment, now) ==
    IF st.data_dir[experiment_id] = NoFile
    THEN [st |-> st, ret |-> FALSE, experiment |-> experiment]
    ELSE LET e == [experiment EXCEPT !.updated_at = now]
         IN  [st |-> [st EXCEPT
                         !.data_dir[experiment_id] = Dump(e, experiment_id),
                         !.cache[experiment_id] = e],
              ret |-> TRUE,
              experiment |-> e]

\* the manager takes the value st
SetStore(st) ==
    /\ data_dir' = st.data_dir
    /\ cache' = st.cache
    /\ uuids' = st.uuids

---------------------------------------------------------------------------
(* Specification of calls on the manager (as tests/test_direct.py makes)   *)

DmTestLists ==
    {<<[hsp |-> <<0, 0, 0>>, solubility |-> "insoluble"]>>,
     <<[hsp |-> <<0, 0, 0>>, solubility |-> "soluble"],
       [hsp |-> <<Scale, 0, 0>>, solubility |-> "insoluble"]>>}
DmExperiments ==
    {Experiment(n, t, c) : n \in {"A", "B"}, t \in DmTestLists, c \in Times}

DmSave(experiment, now) ==
    /\ uuids < MaxIds
    /\ LET r == SaveExperiment(Store, experiment, now)
       IN  /\ SetStore(r.st)
           /\ http' = [op |-> "save", id |-> r.ret, status |-> "ok",
                       body |-> r.ret]
           /\ latest' = [latest EXCEPT ![r.ret] = r.experiment]
    /\ UNCHANGED <<calc_vars, evals, scan>>

DmLoad(experiment_id) ==
    /\ LET r == LoadExperiment(Store, experiment_id)
       IN  /\ SetStore(r.st)
           /\ http' = [op |-> "load", id |-> experiment_id, status |-> "ok",
                       body |-> r.ret]
    /\ UNCHANGED <<calc_vars, evals, scan, latest>>

DmUpdate(experiment_id, experiment, now) ==
    /\ LET r == UpdateExperiment(Store, experiment_id, experiment, now)
       IN  /\ SetStore(r.st)
           /\ http' = [op |-> "update", id |-> experiment_id, status |-> "ok",
                       body |-> r.ret]
           /\ latest' = IF r.ret
                        THEN [latest EXCEPT ![experiment_id] = r.experiment]
                        ELSE latest
    /\ UNCHANGED <<calc_vars, evals, scan>>

DmDelete(experiment_id) ==
    /\ LET r == DeleteExperiment(Store, experiment_id)
       IN  /\ SetStore(r.st)
           /\ http' = [op |-> "delete", id |-> experiment_id, status |-> "ok",
                       body |-> r.ret]
    /\ latest' = [latest EXCEPT ![experiment_id] = NoEntry]
    /\ UNCHANGED <<calc_vars, evals, scan>>

\* the process ends and starts again: DataManager.__init__ (lines 24-27)
\* finds the directory as it was left and starts with an empty cache
Restart ==
    /\ cache # [id \in ExperimentIds |-> NoEntry]
    /\ cache' = [id \in ExperimentIds |-> NoEntry]
    /\ UNCHANGED <<calc_vars, evals, scan, data_dir, uuids, http, latest>>

DmNext ==
    \/ \E experiment \in DmExperiments, now \in Times : DmSave(experiment, now)
    \/ \E id \in ExperimentIds : DmLoad(id)
    \/ \E id \in ExperimentIds, experiment \in DmExperiments, now \in Times :
          DmUpdate(id, experiment, now)
    \/ \E id \in ExperimentIds : DmDelete(id)
    \/ Restart

DmSpec == Init /\ [][DmNext]_vars

\* what load_experiment(id) returns in the current state
Loaded(experiment_id) == LoadExperiment(Store, experiment_id).ret

\* C23: after any sequence of save, load, update, delete (and restarts of
\* the process), load(id) returns the experiment last saved or successfully
\* updated under id, and nothing for an id never saved or deleted; the cache
\* holds no experiment whose file is gone.
C23_StoreCoherent ==
    /\ \A id \in ExperimentIds :
          /\ Loaded(id) = latest[id]
          /\ cache[id] # NoEntry => data_dir[id] # NoFile
          /\ data_dir[id] # NoFile => data_dir[id].id = id
    /\ http.op = "load" => http.body = latest[http.id]

\* id 1 was saved and deleted, id 2 was saved, updated to another sample
\* and is loaded from its file after a restart
C23_Witness ==
    /\ uuids = 2
    /\ latest[1] = NoEntry /\ data_dir[1] = NoFile
    /\ http.op = "load" /\ http.id = 2
    /\ http.body # NoEntry
    /\ http.body.sample_name = "B"
    /\ http.body.created_at # http.body.updated_at
    /\ cache[2] = http.body

---------------------------------------------------------------------------
(* The experiment endpoints: api/hsp_experimental.py                       *)

\* what a client may send as HSPExperimentRequest: a sample name (possibly
\* with blanks around it) and a list of solvent tests (possibly empty)
ApiSampleNames == {"A", " B "}
ApiTestLists ==
    {<<>>,
     <<[hsp |-> <<0, 0, 0>>, solubility |-> "soluble"]>>,
     <<[hsp |-> <<0, 0, 0>>, solubility |-> "soluble"],
       [hsp |-> <<Scale, 0, 0>>, solubility |-> "insoluble"]>>}
ApiRequests == [sample_name : ApiSampleNames, solvent_tests : ApiTestLists]
\* calc_params: the loss_function key, or no such key
ApiLossNames == {Omitted, "optimize_radius_only", "tanimoto"}
MaxCalcs == 2       \* calculations that reach the temporary file
MaxCreated == 1     \* experiments created through the API; the other id stays unknown

\* v.strip() on the sample names of the model
Strip(v) == CASE v = " B " -> "B"
              [] v = " " -> ""
              [] OTHER -> v

\* HSPExperimentData(...) built from a request, hsp_models.py 135-167:
\* validate_solvent_tests and validate_sample_name
FromRequest(request, created_at) ==
    IF request.solvent_tests = <<>> THEN [status |-> "ValueError"]
    ELSE IF Strip(request.sample_name) = "" THEN [status |-> "ValueError"]
    ELSE [status |-> "ok",
          experiment |-> Experiment(Strip(request.sample_name),
                                    request.solvent_tests, created_at)]

\* update_experiment (endpoint), lines 182-190: the experiment built from
\* the request, with the creation time of the stored one
UpdatedExperiment_KeepsResult(request, existing) ==
    LET r == FromRequest(request, existing.created_at)
    IN  IF r.status # "ok" THEN r
        ELSE [r EXCEPT !.experiment.calculated_hsp = existing.calculated_hsp]

UpdatedExperiment(request, existing) ==
    FromRequest(request, existing.created_at)

\* validate_test_data, hsp_calculator.py lines 285-344
ValidateTestData(solvent_tests) ==
    LET hsp_data_count == Cardinality({i \in 1..Len(solvent_tests) :
                                          solvent_tests[i].hsp # NoHSP})
        good_solvents == Cardinality({i \in 1..Len(solvent_tests) :
                            solvent_tests[i].solubility \in {"soluble", "partial"}})
    IN  IF Len(solvent_tests) < 2 THEN FALSE
        ELSE hsp_data_count >= 2 /\ good_solvents # 0

\* calculate_hsp lines 300-302: the result is set on the loaded experiment,
\* which is the object in the cache, and the experiment is written back
StoreResult_Dropped(st, experiment_id, experiment, hsp_result, now) ==
    [st |-> st, ret |-> FALSE, experiment |-> experiment]

StoreResult(st, experiment_id, experiment, hsp_result, now) ==
    LET e == [experiment EXCEPT !.calculated_hsp = hsp_result]
    IN  UpdateExperiment([st EXCEPT !.cache[experiment_id] = e],
                         experiment_id, e, now)

\* get_experiment, lines 160-168
GetResponse(st, experiment_id) ==
    LET l == LoadExperiment(st, experiment_id)
    IN  IF l.ret = NoEntry THEN [status |-> 404, st |-> l.st]
        ELSE [status |-> 200, body |-> l.ret, st |-> l.st]

\* get_hansen_sphere_visualization, lines 339-366 and 404-421; render is
\* the status the plotting that follows ends with
VisualizationResponse(st, experiment_id, render) ==
    LET l == LoadExperiment(st, experiment_id)
    IN  IF l.ret = NoEntry THEN [status |-> 404, st |-> l.st]
        ELSE IF l.ret.calculated_hsp = NoneResult
        THEN [status |-> 400, detail |-> "HSP has not been calculated",
              st |-> l.st]
        ELSE IF \A i \in 1..Len(l.ret.solvent_tests) :
                    l.ret.solvent_tests[i].hsp = NoHSP
        THEN [status |-> 400, detail |-> "No valid solvent data found",
              st |-> l.st]
        ELSE [status |-> render, st |-> l.st]

\* POST /experiments, lines 99-126
ApiCreate(request, created_at, now) ==
    /\ uuids < MaxCreated
    /\ LET r == FromRequest(request, created_at)
       IN  IF r.status # "ok"
           THEN /\ http' = [op |-> "create", id |-> 0, status |-> 500]
                /\ UNCHANGED <<data_dir, cache, uuids, latest>>
           ELSE LET s == SaveExperiment(Store, r.experiment, now)
                IN  /\ SetStore(s.st)
                    /\ http' = [op |-> "create", id |-> s.ret, status |-> 200]
                    /\ latest' = [latest EXCEPT ![s.ret] = s.experiment]
    /\ UNCHANGED <<calc_vars, evals, scan>>

\* GET /experiments/{experiment_id}
ApiGet(experiment_id) ==
    /\ LET r == GetResponse(Store, experiment_id)
       IN  /\ SetStore(r.st)
           /\ http' = IF r.status = 200
                      THEN [op |-> "get", id |-> experiment_id, status |-> 200,
                            body |-> r.body]
                      ELSE [op |-> "get", id |-> experiment_id, status |-> 404]
    /\ UNCHANGED <<calc_vars, evals, scan, latest>>

\* PUT /experiments/{experiment_id}, lines 171-205
ApiUpdate(experiment_id, request, now) ==
    /\ LET l == LoadExperiment(Store, experiment_id)
       IN  IF l.ret = NoEntry
           THEN /\ SetStore(l.st)
                /\ http' = [op |-> "update", id |-> experiment_id, status |-> 404]
                /\ UNCHANGED latest
           ELSE LET r == UpdatedExperiment(request, l.ret)
                IN  IF r.status # "ok"
                    THEN /\ SetStore(l.st)
                         /\ http' = [op |-> "update", id |-> experiment_id,
                                     status |-> 500, existing |-> l.ret]
                         /\ UNCHANGED latest
                    ELSE LET u == UpdateExperiment(l.st, experiment_id,
                                                   r.experiment, now)
                         IN  /\ SetStore(u.st)
                             /\ http' = [op |-> "update", id |-> experiment_id,
                                         status |-> IF u.ret THEN 200 ELSE 500,
                                         existing |-> l.ret]
                             /\ latest' = IF u.ret
                                          THEN [latest EXCEPT
                                                  ![experiment_id] = u.experiment]
                                          ELSE latest
    /\ UNCHANGED <<calc_vars, evals, scan>>

\* DELETE /experiments/{experiment_id}, lines 208-231
ApiDelete(experiment_id) ==
    /\ LET l == LoadExperiment(Store, experiment_id)
       IN  IF l.ret = NoEntry
           THEN /\ SetStore(l.st)
                /\ http' = [op |-> "delete", id |-> experiment_id, status |-> 404]
                /\ UNCHANGED latest
           ELSE /\ SetStore(DeleteExperiment(l.st, experiment_id).st)
                /\ http' = [op |-> "delete", id |-> experiment_id, status |-> 200]
                /\ latest' = [latest EXCEPT ![experiment_id] = NoEntry]
    /\ UNCHANGED <<calc_vars, evals, scan>>

\* POST /experiments/{experiment_id}/calculate, lines 261-309; outcome is
\* what the search of the estimator produces
ApiCalculate(experiment_id, loss_function, outcome, now) ==
    /\ Len(files) < MaxCalcs
    /\ LET l == LoadExperiment(Store, experiment_id)
       IN  IF l.ret = NoEntry
           THEN /\ SetStore(l.st)
                /\ http' = [op |-> "calculate", id |-> experiment_id,
                            status |-> 404]
                /\ UNCHANGED <<latest, files>>
           ELSE IF ~ValidateTestData(l.ret.solvent_tests)
           THEN /\ SetStore(l.st)
                /\ http' = [op |-> "calculate", id |-> experiment_id,
                            status |-> 400]
                /\ UNCHANGED <<latest, files>>
           ELSE LET c == RunCall(l.ret.solvent_tests,
                                 IF loss_function = Omitted
                                 THEN "cross_entropy" ELSE loss_function,
                                 0, NewTmpFile(files), outcome)
                IN  /\ files' = IF c.tmp_filename # 0
                                THEN WriteFile(files, c.tmp_filename, c.hsp_data)
                                ELSE files
                    /\ IF c.result = NoneResult
                       THEN /\ SetStore(l.st)
                            /\ http' = [op |-> "calculate", id |-> experiment_id,
                                        status |-> 500]
                            /\ UNCHANGED latest
                       ELSE LET u == StoreResult(l.st, experiment_id, l.ret,
                                                 c.result, now)
                            IN  /\ SetStore(u.st)
                                /\ http' = [op |-> "calculate",
                                            id |-> experiment_id,
                                            status |-> 200, body |-> c.result]
                                /\ latest' = IF u.ret
                                             THEN [latest EXCEPT
                                                     ![experiment_id] = u.experiment]
                                             ELSE latest
    /\ UNCHANGED <<tests, pc, center_result, hsp_data, result, loss_call,
                   loss_out, pts, dist_out, calls, min_out, evals, scan>>

\* GET /experiments/{experiment_id}/visualization
ApiVisualization(experiment_id, render) ==
    /\ LET r == VisualizationResponse(Store, experiment_id, render)
       IN  /\ SetStore(r.st)
           /\ http' = [op |-> "visualization", id |-> experiment_id,
                       status |-> r.status]
    /\ UNCHANGED <<calc_vars, evals, scan, latest>>

ApiNext ==
    \/ \E request \in ApiRequests, created_at \in Times, now \in Times :
          created_at <= now /\ ApiCreate(request, created_at, now)
    \/ \E id \in ExperimentIds : ApiGet(id)
    \/ \E id \in ExperimentIds, request \in ApiRequests, now \in Times :
          ApiUpdate(id, request, now)
    \/ \E id \in ExperimentIds : ApiDelete(id)
    \/ \E id \in ExperimentIds, loss_function \in ApiLossNames,
          outcome \in ConcOutcomes, now \in Times :
             ApiCalculate(id, loss_function, outcome, now)
    \/ \E id \in ExperimentIds, render \in {200, 500} : ApiVisualization(id, render)
    \/ Restart

ApiSpec == Init /\ [][ApiNext]_vars

\* C22: when a calculate request returns a result, a get of the same id
\* that follows returns the experiment with that result as calculated_hsp
\* (from the cache, and from the file if the process restarted); a
\* calculate request that ends in an error (unknown id, failed validation,
\* failed calculation) changes no file and no experiment a load returns.
C22_CalculateStoresResult ==
    [][\A id \in ExperimentIds, loss_function \in ApiLossNames,
          outcome \in ConcOutcomes, now \in Times :
          ApiCalculate(id, loss_function, outcome, now) =>
             IF http'.status = 200
             THEN /\ GetResponse(Store, id)'.status = 200
                  /\ GetResponse(Store, id)'.body.calculated_hsp = http'.body
                  /\ Parse(data_dir'[id]).calculated_hsp = http'.body
                  /\ ValidateTestData(Loaded(id).solvent_tests)
             ELSE /\ data_dir' = data_dir
                  /\ \A other \in ExperimentIds : Loaded(other)' = Loaded(other)
                  /\ (http'.status = 404 <=> Loaded(id) = NoEntry)
                  /\ (http'.status = 400 <=>
                        /\ Loaded(id) # NoEntry
                        /\ ~ValidateTestData(Loaded(id).solvent_tests))]_vars

\* a radius-only calculation returned a result and the file holds it
C22_Witness ==
    /\ http.op = "calculate" /\ http.status = 200
    /\ http.body.radius = 2 * Scale
    /\ data_dir[http.id] # NoFile
    /\ data_dir[http.id].calculated_hsp = http.body
    /\ cache[http.id] # NoEntry
    /\ cache[http.id].calculated_hsp = http.body

\* C30: a successful update keeps the id and created_at of the experiment,
\* takes the other fields from the request (the name stripped, updated_at
\* set by the manager) and leaves it without calculated_hsp, so that a
\* visualization request is rejected; the result only comes back with a
\* successful calculate.  An update that fails changes no file and no
\* experiment a load returns, and an update for an id without a file fails
\* and leaves files and cache as they were.
C30_UpdateFrame ==
    [][/\ \A id \in ExperimentIds, request \in ApiRequests, now \in Times :
            ApiUpdate(id, request, now) =>
               /\ IF http'.status = 200
                  THEN /\ Loaded(id)'.created_at = Loaded(id).created_at
                       /\ data_dir'[id].id = id
                       /\ Parse(data_dir'[id]) = Loaded(id)'
                       /\ Loaded(id)'.sample_name = Strip(request.sample_name)
                       /\ Loaded(id)'.solvent_tests = request.solvent_tests
                       /\ Loaded(id)'.updated_at = now
                       /\ Loaded(id)'.calculated_hsp = NoneResult
                       /\ \A render \in {200, 500} :
                             VisualizationResponse(Store, id, render)'.status = 400
                  ELSE /\ data_dir' = data_dir
                       /\ \A other \in ExperimentIds : Loaded(other)' = Loaded(other)
               /\ data_dir[id] = NoFile =>
                     /\ http'.status # 200
                     /\ data_dir' = data_dir
                     /\ cache' = cache
       /\ \A id \in ExperimentIds :
            (/\ Loaded(id) # NoEntry
             /\ Loaded(id)' # NoEntry
             /\ Loaded(id).calculated_hsp = NoneResult
             /\ Loaded(id)'.calculated_hsp # NoneResult)
            => /\ http'.op = "calculate"
               /\ http'.id = id
               /\ http'.status = 200]_vars

\* an experiment that had a result was updated under another name
C30_Witness ==
    /\ http.op = "update" /\ http.status = 200
    /\ http.existing.calculated_hsp # NoneResult
    /\ http.existing.sample_name = "A"
    /\ cache[http.id].sample_name = "B"
    /\ cache[http.id].calculated_hsp = NoneResult
    /\ cache[http.id].created_at = http.existing.created_at
    /\ cache[http.id].updated_at # http.existing.updated_at

---------------------------------------------------------------------------
(* Radius-only mode: the feasibility check, the order of the steps, the    *)
(* furthest good observation                                               *)

\* C24: in a returned radius-only result Ra_max is the smallest Hansen
\* distance from the centre over the rows with score < 1.0 (infinity when
\* there is none) and the feasible flag is Ra_min <= Ra_max: a tie
\* Ra_min = Ra_max is feasible, and so is every run without a poor row.
C24_FeasibilityCheck ==
    Returned =>
        /\ result.Ra_max = IF PoorRows = {} THEN Infinity
                           ELSE SetMin({RowDistance(i) : i \in PoorRows})
        /\ result.feasible = (result.Ra_min <= result.Ra_max)
        /\ result.Ra_min = result.Ra_max => result.feasible
        /\ PoorRows = {} => result.feasible

\* a good and an insoluble observation at the same coordinates, away from
\* the centre: Ra_min = Ra_max, recorded as feasible
C24_Witness ==
    /\ Returned
    /\ result.Ra_min = result.Ra_max
    /\ result.feasible
    /\ \E g \in GoodRows, p \in PoorRows :
          /\ hsp_data[p].Data = 0
          /\ hsp_data[g].D = hsp_data[p].D
          /\ hsp_data[g].P = hsp_data[p].P
          /\ hsp_data[g].H = hsp_data[p].H

\* the good rows at the largest distance from the returned centre
FurthestGoodRows ==
    {i \in GoodRows : \A j \in GoodRows : RowDistance(j) <= RowDistance(i)}

FittedCenter(c) ==
    <<ExtractCoordinate(c.estimator.hsp_[1]),
      ExtractCoordinate(c.estimator.hsp_[2]),
      ExtractCoordinate(c.estimator.hsp_[3])>>

\* C26: in a radius-only call nothing of steps 2-5 exists before the centre
\* fit has ended; the centre fit is a cross_entropy fit without size penalty
\* over the whole converted list, whatever size_factor the caller passed;
\* the returned centre is the fitted one; and when the centre fit fails the
\* call returns None without a radius.
C26_CenterFirst ==
    \A p \in Callers :
        LET c == calls[p]
        IN  (c.pc # "idle" /\ c.radius_only) =>
              /\ c.pc \in {"convert", "select", "fit", "extract"} =>
                    /\ c.center_result = NoneResult
                    /\ c.result = NoneResult
              /\ c.center_result # NoneResult =>
                    /\ c.pc \in {"radius", "done"}
                    /\ c.estimator.status = "fitted"
                    /\ c.estimator.hsp_ # <<>>
                    /\ c.loss_function = "cross_entropy"
                    /\ c.loss_func.kind = "cross_entropy"
                    /\ c.loss_func.size_factor = NoValue
                    /\ c.fit_runs = 1
                    /\ c.hsp_data = ConvertTestsToHspFormat(c.solvent_tests)
                    /\ <<c.center_result.delta_d, c.center_result.delta_p,
                         c.center_result.delta_h>> = FittedCenter(c)
              /\ c.result # NoneResult =>
                    /\ c.pc = "done"
                    /\ c.center_result # NoneResult
                    /\ c.result.delta_d = c.center_result.delta_d
                    /\ c.result.delta_p = c.center_result.delta_p
                    /\ c.result.delta_h = c.center_result.delta_h
                    /\ c.result.cross_entropy_Ra = c.center_result.radius
              /\ (c.pc = "done" /\ c.center_result = NoneResult) =>
                    c.result = NoneResult

\* one radius-only call, made with a size_factor, has returned a sphere
\* around the fitted centre while the centre fit of another one has failed
C26_Witness ==
    \E p, q \in Callers :
        /\ calls[p].pc = "done" /\ calls[p].radius_only
        /\ calls[p].given.size_factor = Scale \div 2
        /\ calls[p].result # NoneResult
        /\ calls[p].result.delta_d = Scale
        /\ calls[p].result.radius # calls[p].center_result.radius
        /\ calls[q].pc = "done" /\ calls[q].radius_only
        /\ calls[q].fit_runs = 1
        /\ calls[q].center_result = NoneResult
        /\ calls[q].result = NoneResult

---------------------------------------------------------------------------
(* The radius scan: HSPCalculator._optimize_radius_maximize_fit            *)
(* (hsp_calculator.py lines 592-652; no caller in the repository)          *)

\* lines 631-632 and 636-637.  RED = s['distance'] / Ra with Ra > 0: the
\* quotient is below (above) 1.0 exactly when the distance is below (above)
\* Ra, so the tests are made on the operands.
ScanInside(s, Ra) == s.distance < Ra

ScanOutside_NotInside(s, Ra) == s.distance >= Ra

ScanOutside(s, Ra) == s.distance > Ra

\* lines 627-638: the classifications the scan counts as correct at Ra
ScanCorrect(good_solvents, poor_solvents, Ra) ==
    Cardinality({i \in 1..Len(good_solvents) : ScanInside(good_solvents[i], Ra)})
  + Cardinality({i \in 1..Len(poor_solvents) : ScanOutside(poor_solvents[i], Ra)})

\* line 640
ScanFit(good_solvents, poor_solvents, Ra) ==
    LET total == Len(good_solvents) + Len(poor_solvents)
    IN  IF total > 0
        THEN Div(ScanCorrect(good_solvents, poor_solvents, Ra), total)
        ELSE 0

\* lines 615-617
ScanEpsilon(Ra_min, Ra_max) == Max(Scale, Ra_min - Ra_max)
SearchMin(Ra_min, Ra_max) ==
    Max(Scale \div 10, Ra_max - ScanEpsilon(Ra_min, Ra_max))
SearchMax(Ra_min, Ra_max) == Ra_min + ScanEpsilon(Ra_min, Ra_max)
\* line 623: np.arange(search_min, search_max + 0.01, 0.01); the step 0.01
\* is one unit of the fixed-point numbers
RaValues(Ra_min, Ra_max) == SearchMin(Ra_min, Ra_max)..SearchMax(Ra_min, Ra_max)

\* lines 626-647: one pass of the loop body, for the radius Ra, on the best
\* radius and the best fit found so far
ScanStep(Ra, good_solvents, poor_solvents, acc) ==
    LET fit == ScanFit(good_solvents, poor_solvents, Ra)
    IN  IF fit > acc.max_fit THEN [best_Ra |-> Ra, max_fit |-> fit]
        ELSE IF fit = acc.max_fit /\ Ra < acc.best_Ra
        THEN [best_Ra |-> Ra, max_fit |-> acc.max_fit]
        ELSE acc

\* line 625: the passes for the radii lo..hi of the grid in ascending order
\* (the lower half of the range, then the upper half on what it leaves;
\* the fit is never negative, the test only fixes the order of evaluation)
RECURSIVE ScanLoop(_, _, _, _, _)
ScanLoop(lo, hi, good_solvents, poor_solvents, acc) ==
    IF lo > hi THEN acc
    ELSE IF lo = hi THEN ScanStep(lo, good_solvents, poor_solvents, acc)
    ELSE LET mid == (lo + hi) \div 2
             lower == ScanLoop(lo, mid, good_solvents, poor_solvents, acc)
         IN  IF lower.max_fit < 0 THEN lower
             ELSE ScanLoop(mid + 1, hi, good_solvents, poor_solvents, lower)

\* _optimize_radius_maximize_fit(Ra_min, Ra_max, good_solvents, poor_solvents):
\* best_Ra = Ra_min and max_fit = 0.0 before the loop (lines 620-621)
OptimizeRadiusMaximizeFit(Ra_min, Ra_max, good_solvents, poor_solvents) ==
    ScanLoop(SearchMin(Ra_min, Ra_max), SearchMax(Ra_min, Ra_max),
             good_solvents, poor_solvents,
             [best_Ra |-> Ra_min, max_fit |-> 0])

\* the solvents handed to the scan: good ones (solubility 1.0) and poor
\* ones at some distances from the centre, at least one poor one
ScanDistances == {0, Scale \div 2, Scale, (3 * Scale) \div 2, 2 * Scale}
MaxScanList == 2
ScanGood == {[distance |-> d, solubility |-> Scale] : d \in ScanDistances}
ScanPoor == {[distance |-> d, solubility |-> 0] : d \in ScanDistances}
ScanGoodLists == UNION {[1..n -> ScanGood] : n \in 0..MaxScanList}
ScanPoorLists == UNION {[1..n -> ScanPoor] : n \in 1..MaxScanList}

\* a call of the scan with the constraints of lines 429-447
RunScan(good_solvents, poor_solvents) ==
    /\ scan.status = "none"
    /\ LET Ra_min == RaMin(good_solvents)
           Ra_max == RaMax(poor_solvents)
           out == OptimizeRadiusMaximizeFit(Ra_min, Ra_max, good_solvents,
                                            poor_solvents)
       IN  scan' = [status |-> "done", Ra_min |-> Ra_min, Ra_max |-> Ra_max,
                    good_solvents |-> good_solvents,
                    poor_solvents |-> poor_solvents,
                    Ra_values |-> RaValues(Ra_min, Ra_max),
                    best_Ra |-> out.best_Ra, max_fit |-> out.max_fit]
    /\ UNCHANGED <<calc_vars, evals, manager_vars>>

ScanNext ==
    /\ scan.status = "none"
    /\ \E good_solvents \in ScanGoodLists, poor_solvents \in ScanPoorLists :
          RunScan(good_solvents, poor_solvents)

ScanSpec == Init /\ [][ScanNext]_vars

\* the fit of the scan at Ra for the solvents of the run
FitAt(Ra) == ScanFit(scan.good_solvents, scan.poor_solvents, Ra)
Fallback == scan.status = "done" /\ scan.Ra_min > scan.Ra_max

\* C25: when Ra_min > Ra_max the scan considers only radii within
\* [Ra_max, Ra_min] and returns a candidate of maximal accuracy, the
\* smallest of those.
C25_ScanWithinConstraints ==
    Fallback =>
        /\ \A Ra \in scan.Ra_values : scan.Ra_max <= Ra /\ Ra <= scan.Ra_min
        /\ scan.best_Ra \in scan.Ra_values
        /\ \A Ra \in scan.Ra_values : FitAt(Ra) <= FitAt(scan.best_Ra)
        /\ \A Ra \in scan.Ra_values :
              FitAt(Ra) = FitAt(scan.best_Ra) => scan.best_Ra <= Ra

\* the final metrics of the radius-only mode (lines 482-505) at radius Ra
\* for the solvents of the run
FinalCorrectAt(Ra) ==
    CountCorrect(ClassificationDetails(scan.good_solvents \o scan.poor_solvents, Ra))
PoorOnBoundary(Ra) ==
    {i \in 1..Len(scan.poor_solvents) : scan.poor_solvents[i].distance = Ra}

\* C28: at every radius the final metrics count as correct what the scan
\* counts as correct, plus the poor solvents at distance exactly Ra, which
\* the scan counts as incorrect.
C28_ScanVersusFinalMetrics ==
    scan.status = "done" =>
        \A Ra \in scan.Ra_values :
            /\ FinalCorrectAt(Ra)
                 = ScanCorrect(scan.good_solvents, scan.poor_solvents, Ra)
                   + Cardinality(PoorOnBoundary(Ra))
            /\ \A i \in 1..Len(scan.poor_solvents) :
                  LET s == scan.poor_solvents[i]
                  IN  /\ ScanOutside(s, Ra) => ~ScanInside(s, Ra)
                      /\ (~ScanInside(s, Ra) /\ ~ScanOutside(s, Ra))
                            <=> i \in PoorOnBoundary(Ra)

\* a poor solvent lies exactly on a radius of the grid, where the two
\* counts differ by one
C28_Witness ==
    /\ scan.status = "done"
    /\ \E Ra \in scan.Ra_values :
          /\ Cardinality(PoorOnBoundary(Ra)) = 1
          /\ FinalCorrectAt(Ra)
               = ScanCorrect(scan.good_solvents, scan.poor_solvents, Ra) + 1
          /\ \E i \in 1..Len(scan.good_solvents) :
                scan.good_solvents[i].distance < Ra

---------------------------------------------------------------------------
(* Two losses on the same call: boundary_distance and proportional_boundary *)

\* BoundaryDistanceLoss(size_factor)(HSP, X, y) and
\* ProportionalBoundaryLoss(size_factor)(HSP, X, y) on the same arguments
EvaluatePair(size_factor, HSP) ==
    /\ pc = "input"
    /\ loss_call.kind = "none"
    /\ Len(ConvertTestsToHspFormat(tests)) >= 1
    /\ LET data == ConvertTestsToHspFormat(tests)
       IN  /\ loss_call' = [kind |-> "pair", size_factor |-> size_factor,
                            HSP |-> HSP, data |-> data]
           /\ loss_out' =
                [kind |-> "pair",
                 boundary_distance |->
                     LossCall("boundary_distance", size_factor, HSP, data),
                 proportional_boundary |->
                     LossCall("proportional_boundary", size_factor, HSP, data)]
    /\ UNCHANGED <<tests, pc, center_result, hsp_data, result, pts,
                   dist_out, calls, files, min_out, store_vars>>

PairNext ==
    \/ \E t \in Tests : AddTestBeforeFit(t)
    \/ \E sf \in SizeFactors, c \in LossCenters, R \in LossRadii :
          EvaluatePair(sf, <<c[1], c[2], c[3], R>>)

PairSpec == Init /\ [][PairNext]_vars

PairEvaluated == loss_call.kind = "pair"
BinaryScores == \A i \in LossRows : loss_call.data[i].Data \in {0, Scale}

\* C29: on a dataset with scores 0.0 and 1.0 only the two losses return the
\* same value, for every sphere and size_factor; sample by sample they can
\* only differ where the score is strictly between 0 and 1.
C29_SameOnBinaryScores ==
    PairEvaluated =>
        /\ BinaryScores =>
              /\ loss_out.boundary_distance.value
                   = loss_out.proportional_boundary.value
              /\ loss_out.boundary_distance.base_loss
                   = loss_out.proportional_boundary.base_loss
        /\ \A i \in LossRows :
              loss_out.boundary_distance.loss_per_sample[i]
                 # loss_out.proportional_boundary.loss_per_sample[i]
              => /\ loss_call.data[i].Data > 0
                 /\ loss_call.data[i].Data < Scale

\* binary scores, a good observation outside, a size penalty: equal values
\* that are not zero
C29_Witness ==
    /\ PairEvaluated
    /\ BinaryScores
    /\ loss_call.size_factor = Scale \div 2
    /\ \E i \in LossRows :
          /\ loss_call.data[i].Data = Scale
          /\ loss_out.boundary_distance.loss_per_sample[i] > 0
    /\ \E i \in LossRows : loss_call.data[i].Data = 0
    /\ loss_out.boundary_distance.value = loss_out.proportional_boundary.value
    /\ loss_out.boundary_distance.value > loss_out.boundary_distance.base_loss

====
